---- MODULE Spec2Model ----
(***************************************************************************)
(* State-machine model of the identity-and-access core of ghostworker-flow *)
(* (backend/app): the sliding-window rate limiter, the single-use          *)
(* ephemeral tokens, the failed-login lockout and the session-token codec. *)
(* Each subsystem has its own specification over the shared variables.     *)
(***************************************************************************)
EXTENDS Integers, Sequences, FiniteSets, TLC

(***************************************************************************)
(* Bounds of the model.  Time is counted in ticks, TicksPerSec ticks to    *)
(* the second, so that int() and the store's TTL rounding are conversions. *)
(***************************************************************************)
TicksPerSec == 2
Limit == 2
WindowSecs == 1
MaxCalls == 3

VerifyTtlSecs == 1
ResetTtlSecs == 1
MaxRedeems == 2
LockoutSecs == 1
AccessTtlSecs == 1
RefreshTtlSecs == 2
RequestsPerMinute == 1
BurstSize == 1
BurstWindowTicks == 1
MaxRequests == 3
MaxHeaderLen == 3
MaxSessionEvents == 2

\* settings.MAX_FAILED_LOGIN_ATTEMPTS
MaxAttempts == 5

Window == WindowSecs * TicksPerSec
MaxTime == Window + 1
RLProcs == {"h1", "h2"}
NoExpiry == -1

Handlers == {"h1", "h2"}
OutageLogins == {"h1"}
DeviceLogins == {"h1", "h2"}
OutageRedeemers == {"h2"}
VerifyTokens == {"tv"}
ResetTokens == {"tr"}
Tokens == VerifyTokens \cup ResetTokens
NewPasswords == {"pw1"}
NoKey == [user_id |-> "none", used |-> FALSE, exp |-> 0]
NoOutcome == [op |-> "none", tok |-> "none", res |-> "none", late |-> FALSE,
              inTtl |-> FALSE, changed |-> FALSE, fault |-> FALSE, known |-> FALSE]
NoCall == [op |-> "none", tok |-> "none", newpw |-> "none", data |-> NoKey, ttl |-> 0,
           late |-> FALSE, inTtl |-> FALSE, fault |-> FALSE, known |-> FALSE]
MaxTokTime == (ResetTtlSecs + 1) * TicksPerSec
Lockout == LockoutSecs * TicksPerSec
MaxLoginTime == Lockout + 1
MaxLogins == MaxAttempts + 1
SessionUsers == {"u1"}
RefreshCallers == {"r1", "r2", "r3"}
BearerCallers == {"r1", "r2"}
MaxMints == Cardinality(SessionUsers) + 1
NoPayload == [type |-> "none", sub |-> "none", exp |-> 0, jti |-> 0]
NoRefresh == [defect |-> "none", exc |-> "none", decoded |-> NoPayload, res |-> "none",
              pair |-> FALSE, active |-> FALSE, afterLogout |-> FALSE, afterReset |-> FALSE]
NoBearer == [defect |-> "none", decoded |-> NoPayload, res |-> "none"]
MaxSessionTime == (RefreshTtlSecs + 1) * TicksPerSec
Emails == {"a@x", "b@x"}
MinPasswordLen == 8
SignupPasswords ==
    [len : {MinPasswordLen - 1, MinPasswordLen}, upper : BOOLEAN, lower : BOOLEAN,
     digit : BOOLEAN]
NoSignup == [email |-> "none", res |-> "none", existed |-> FALSE, compliant |-> FALSE,
             matched |-> FALSE, created |-> FALSE, stored |-> FALSE, logged |-> FALSE,
             mailed |-> FALSE, tok |-> "none"]
NoLogin == [pwOk |-> FALSE, res |-> "none", failsAtCheck |-> -1, credChecked |-> FALSE,
            touched |-> FALSE, count |-> 0, isLocked |-> FALSE, cleared |-> -1,
            fault |-> FALSE, ip |-> "none", fp |-> "none", alert |-> "none",
            sent |-> "none", tokens |-> FALSE, lastLogin |-> FALSE, nSuccess |-> 0,
            countAfterClear |-> -1, found |-> FALSE, events |-> << >>, lockMail |-> FALSE,
            deviceEvent |-> "none", ipSeen |-> FALSE, fpSeen |-> FALSE]
RateLimitFree == 60
RateLimitPro == 200
RateLimitBusiness == 500
RateLimitEnterprise == 1000
Plans == {"free", "pro", "business", "enterprise"}
PlanValues == Plans \cup {"gold"}
HeaderChars == {"1", ",", " "}
UserId == << "7" >>
TokenSub == << "8" >>
ClientHost == << "9" >>
Wrappers == {"w1", "w2"}
NoRequest == [phase |-> "none", ts |-> 0, burst |-> "none", main |-> "none",
              retry |-> 0, ran |-> FALSE, res |-> "none", retryHeader |-> -1,
              returned |-> -1, burstAdded |-> FALSE, mainAdded |-> FALSE]
Ips == {"ip1", "ip2"}
Fingerprints == {"fp1"}
KnownClient == [ip : {"ip1"}, fp : {"none"}, delivered : {TRUE}]
AnyClient == [ip : Ips \cup {"none"}, fp : Fingerprints \cup {"none"}, delivered : BOOLEAN]

VARIABLES
    clock,      \* time.time(), in ticks
    storeUp,    \* TRUE while the shared store answers commands
    rlRedis,    \* SlidingWindowRateLimiter.redis: "None" or "client"
    zset,       \* sorted set ratelimit:<identifier>:<window>: member str(now), score now
    zexpire,    \* instant at which the store drops the sorted-set key
    rlpc,       \* position of each is_allowed call
    rlcall,     \* index in calls of the call each caller is making
    calls,      \* one record per is_allowed call, in the order of their time.time() reads
    overlapped, \* TRUE once two is_allowed calls were in flight together
    user,       \* the identity's committed row: is_email_verified, hashed_password
    vtok,       \* store keys verification:<token>
    rtok,       \* store keys password_reset:<token>
    epc,        \* position of each verify_email / reset_password call
    ecall,      \* the call each handler is making: arguments and locals
    issued,     \* ghost: the expiry each raw token was issued with, per purpose
    redeems,    \* ghost: the outcome of the last redemption each handler finished
    okCount,    \* ghost: successful redemptions per purpose and raw token
    started,    \* ghost: number of redemption calls made
    flCount,    \* store key failed_login:<email>: its value, 0 when the key is absent
    flExpire,   \* the key's expiry instant, NoExpiry when it has none
    lpc,        \* position of each login call
    login,      \* the login each handler is making or made last: argument, locals, result
    fails,      \* ghost: failed logins recorded since the counter last started from nothing
    clearedFrom, \* ghost: the count the last successful login deleted, -1 after a failure
    logins,     \* ghost: number of login calls made
    firstFail,  \* ghost: instant of the failure that took the live counter from 0 to 1
    loginEvents, \* the committed LOGIN_SUCCESS rows: ip_address and device_fingerprint columns
    minted,     \* the claims of every session token _create_token_pair has signed
    mints,      \* number of token pairs created; the next jti
    rres,       \* the refresh_tokens call each handler made last: its token's defect and result
    bearer,     \* the get_current_user call made last: its token's defect and result
    dir,        \* the emails that have a committed identity row
    pending,    \* the emails of rows flushed by a signup that has not committed yet
    spc,        \* position of each signup call
    signup,     \* the signup each handler is making or made last: request, effects, result
    wzset,      \* the sorted sets under the keys of a rate_limit-decorated endpoint
    wzexpire,   \* the expiry instant of each of those keys
    wpc,        \* position of each decorated request
    wreq,       \* the decorated request each worker is serving or served last
    requests,   \* ghost: number of decorated requests received
    probe,      \* a request and what the limiter's helpers resolved for it
    loggedOut,  \* ghost: the refresh tokens handed to logout
    preReset,   \* ghost: the refresh tokens that existed when a password reset committed
    sessionLog, \* the LOGOUT and PASSWORD_RESET_COMPLETED rows, in order
    stack,      \* the middleware classes the application has added
    dpc,        \* where each request is between the middleware and its route
    dreq,       \* each request and what happened to it
    oauth       \* the outcome of the last OAuth callback

rlvars == <<rlRedis, zset, zexpire, rlpc, rlcall, calls, overlapped>>
evars == <<user, vtok, rtok, epc, ecall, issued, redeems, okCount, started>>

lvars == <<flCount, flExpire, lpc, login, fails, clearedFrom, logins, firstFail, loginEvents>>
tvars == <<minted, mints, rres, bearer>>
svars == <<dir, pending, spc, signup>>
wvars == <<wzset, wzexpire, wpc, wreq, requests>>
gvars == <<loggedOut, preReset, sessionLog>>
dvars == <<stack, dpc, dreq>>
ovars == <<oauth>>
mvars == <<probe, gvars, dvars, ovars>>

notLimiter == <<evars, lvars, tvars, svars, wvars, mvars>>
notEphemeral == <<rlvars, lvars, tvars, svars, wvars, mvars>>
notLogin == <<rlvars, vtok, rtok, epc, ecall, issued, redeems, okCount, started, tvars, svars, wvars, mvars>>
notSession == <<rlvars, vtok, rtok, epc, ecall, issued, redeems, okCount, started, lvars, svars, wvars, mvars>>
notSignup == <<rlvars, user, rtok, epc, ecall, redeems, okCount, started, lvars, tvars,
               wvars, mvars>>

notWrapper == <<zset, zexpire, rlpc, rlcall, calls, overlapped, evars, lvars, tvars, svars,
                mvars>>

vars == <<clock, storeUp, rlvars, evars, lvars, tvars, svars, wvars, mvars>>

----------------------------------------------------------------------------
(* Helpers *)

SetMin(S) == CHOOSE x \in S : \A y \in S : x <= y

Max0(x) == IF x > 0 THEN x ELSE 0

\* Python int() of a number of seconds given in ticks: truncation toward zero.
IntSecs(x) == IF x >= 0 THEN x \div TicksPerSec ELSE -((-x) \div TicksPerSec)

\* What a command sees under the key: nothing once the key's expiry has passed.
Live == IF zexpire # NoExpiry /\ clock >= zexpire THEN {} ELSE zset

----------------------------------------------------------------------------
(* SlidingWindowRateLimiter *)

\* get_redis_client(): the store client, or None while the store is unreachable.
get_redis_client == IF storeUp THEN "client" ELSE "None"

\* _get_redis(): the cached client, fetched on first use.
GetRedis == IF rlRedis = "None" THEN get_redis_client ELSE rlRedis

\* Faulty variant: the prune spares the member whose score is exactly now - window.
ZRemRangeByScoreExclusive(S, now) == {t \in S : ~(0 <= t /\ t < now - Window)}

\* zremrangebyscore(key, 0, now - window): the members that stay.
ZRemRangeByScore(S, now) == {t \in S : ~(0 <= t /\ t <= now - Window)}

\* Faulty variant: a store fault rejects the request.
FailClosed == [allowed |-> FALSE, remaining |-> 0, retry |-> WindowSecs]

\* The answer of the two fail-open paths: (True, limit, 0).
FailOpen == [allowed |-> TRUE, remaining |-> Limit, retry |-> 0]

\* The answer of the allowed path: (True, max(0, limit - current_count - 1), 0).
AllowedAnswer(count) ==
    [allowed |-> TRUE, remaining |-> Max0(Limit - count - 1), retry |-> 0]

\* retry_after of the rejected path, from the result of zrange(key, 0, 0).
RetryAfter(S, now) ==
    IF S # {} THEN IntSecs(SetMin(S) + Window - now) + 1 ELSE WindowSecs

\* The decision on the count the pipeline returned.
OverLimit(count) == count >= Limit

NewCall(now) ==
    [ts |-> now, st |-> "begun", allowed |-> FALSE, remaining |-> 0, retry |-> 0,
     count |-> 0, exact |-> 0, sat |-> FALSE, fault |-> FALSE, oldest |-> -1,
     zrange |-> -1, logged |-> FALSE]

\* Ghost: the previously allowed requests whose timestamps lie in (now - W, now].
ExactCount(now) ==
    Cardinality({i \in DOMAIN calls :
        /\ calls[i].st = "allowed"
        /\ calls[i].ts > now - Window
        /\ calls[i].ts <= now})

\* Ghost: the set holds exactly Limit entries, each the timestamp of an allowed
\* request, and Window has elapsed since the oldest of them.
SaturatedAndElapsed(now) ==
    /\ Cardinality(Live) = Limit
    /\ Live \subseteq {calls[i].ts : i \in {j \in DOMAIN calls : calls[j].st = "allowed"}}
    /\ now >= SetMin(Live) + Window

\* Lines 145 and 150-153: the rejection, and the except clause, which prints
\* "Rate limiter error" before it returns.
Finish(p, ans, st, fault) ==
    /\ calls' = [calls EXCEPT ![rlcall[p]] =
                    [@ EXCEPT !.st = st, !.allowed = ans.allowed,
                              !.remaining = ans.remaining, !.retry = ans.retry,
                              !.fault = fault, !.logged = (st = "failopen")]]
    /\ rlpc' = [rlpc EXCEPT ![p] = "idle"]

\* is_allowed, lines 107-113: fetch the client; without one, allow (nothing is
\* printed on this path); else read the clock.
IsAllowedBegin(p) ==
    /\ rlpc[p] = "idle"
    /\ Len(calls) < MaxCalls
    /\ rlRedis' = GetRedis
    /\ rlcall' = [rlcall EXCEPT ![p] = Len(calls) + 1]
    /\ overlapped' = (overlapped \/ \E q \in RLProcs : q # p /\ rlpc[q] # "idle")
    /\ IF GetRedis = "None"
       THEN /\ calls' = Append(calls,
                  [NewCall(clock) EXCEPT !.st = "failopen", !.allowed = FailOpen.allowed,
                       !.remaining = FailOpen.remaining, !.retry = FailOpen.retry,
                       !.fault = TRUE])
            /\ rlpc' = rlpc
       ELSE /\ calls' = Append(calls, NewCall(clock))
            /\ rlpc' = [rlpc EXCEPT ![p] = "pipe"]
    /\ UNCHANGED <<clock, storeUp, zset, zexpire, notLimiter>>

\* is_allowed, lines 117-148: the MULTI/EXEC pipeline and the allowed path.
IsAllowedPipeline(p) ==
    /\ rlpc[p] = "pipe"
    /\ storeUp
    /\ LET now == calls[rlcall[p]].ts
           kept == ZRemRangeByScore(Live, now)
           count == Cardinality(kept)
           rec == [calls[rlcall[p]] EXCEPT !.count = count, !.exact = ExactCount(now),
                                           !.sat = SaturatedAndElapsed(now),
                                           !.oldest = IF kept = {} THEN -1 ELSE SetMin(kept)]
       IN /\ zset' = kept \cup {now}
          /\ zexpire' = clock + (WindowSecs + 1) * TicksPerSec
          /\ IF OverLimit(count)
             THEN /\ calls' = [calls EXCEPT ![rlcall[p]] = [rec EXCEPT !.st = "counted"]]
                  /\ rlpc' = [rlpc EXCEPT ![p] = "oldest"]
             ELSE /\ calls' = [calls EXCEPT ![rlcall[p]] =
                        [rec EXCEPT !.st = "allowed",
                                    !.allowed = AllowedAnswer(count).allowed,
                                    !.remaining = AllowedAnswer(count).remaining,
                                    !.retry = AllowedAnswer(count).retry]]
                  /\ rlpc' = [rlpc EXCEPT ![p] = "idle"]
    /\ UNCHANGED <<clock, storeUp, rlRedis, rlcall, overlapped, notLimiter>>

\* is_allowed, lines 136-140: zrange(key, 0, 0, withscores=True) and retry_after.
IsAllowedOldest(p) ==
    /\ rlpc[p] = "oldest"
    /\ storeUp
    /\ calls' = [calls EXCEPT ![rlcall[p]] =
                    [@ EXCEPT !.retry = RetryAfter(Live, calls[rlcall[p]].ts),
                              !.zrange = IF Live = {} THEN -1 ELSE SetMin(Live)]]
    /\ rlpc' = [rlpc EXCEPT ![p] = "zrem"]
    /\ UNCHANGED <<clock, storeUp, rlRedis, zset, zexpire, rlcall, overlapped, notLimiter>>

\* is_allowed, lines 143-145: zrem(key, str(now)) and the rejection.
IsAllowedZrem(p) ==
    /\ rlpc[p] = "zrem"
    /\ storeUp
    /\ zset' = Live \ {calls[rlcall[p]].ts}
    /\ Finish(p, [allowed |-> FALSE, remaining |-> 0, retry |-> calls[rlcall[p]].retry],
              "rejected", FALSE)
    /\ UNCHANGED <<clock, storeUp, rlRedis, zexpire, rlcall, overlapped, notLimiter>>

\* is_allowed, lines 150-153: a store command raised; the request is allowed.
IsAllowedStoreError(p) ==
    /\ rlpc[p] \in {"pipe", "oldest", "zrem"}
    /\ ~storeUp
    /\ Finish(p, FailOpen, "failopen", TRUE)
    /\ UNCHANGED <<clock, storeUp, rlRedis, zset, zexpire, rlcall, overlapped, notLimiter>>


----------------------------------------------------------------------------
(* RedisService: keys with a time to live *)

\* What get / get_json return for a key: NoKey once its expiry has passed.
GetJson(rec) == IF rec # NoKey /\ clock < rec.exp THEN rec ELSE NoKey

\* The replies redis.ttl(key) can give for a key with rem ticks left on the
\* model clock: the store rounds the remaining milliseconds to whole seconds,
\* and the remaining time lies in (rem - 1, rem] ticks.
TtlReplies(rem) ==
    ((2 * (rem - 1) + TicksPerSec) \div (2 * TicksPerSec))
        .. ((2 * rem + TicksPerSec) \div (2 * TicksPerSec))

\* set(key, value, timedelta(seconds=secs)): the stored record.
SetEx(rec, secs) == [rec EXCEPT !.exp = clock + secs * TicksPerSec]

\* store_verification_token and request_password_reset store used=False.
FreshToken(secs) == SetEx([user_id |-> "u1", used |-> FALSE, exp |-> 0], secs)

----------------------------------------------------------------------------
(* AuthService: issuing and redeeming ephemeral tokens *)

Unissued(t) == issued[t].verify = NoExpiry /\ issued[t].reset = NoExpiry

\* Ghost: a redemption of this raw token for this purpose has already succeeded.
AlreadyRedeemed(op, t) == okCount[op][t] > 0

Outcome(c, res, changed) ==
    [op |-> c.op, tok |-> c.tok, res |-> res, late |-> c.late, inTtl |-> c.inTtl,
     changed |-> changed, fault |-> c.fault, known |-> c.known]

EFinish(p, c, res, changed) ==
    /\ redeems' = [redeems EXCEPT ![p] = Outcome(c, res, changed)]
    /\ okCount' = IF res = "Ok"
                  THEN [okCount EXCEPT ![c.op][c.tok] = @ + 1]
                  ELSE okCount
    /\ epc' = [epc EXCEPT ![p] = "idle"]
    /\ ecall' = [ecall EXCEPT ![p] = NoCall]

\* resend_verification: a new random token is stored for the unverified identity.
ResendVerification(t) ==
    /\ storeUp
    /\ Unissued(t)
    /\ ~user.verified
    /\ vtok' = [vtok EXCEPT ![t] = FreshToken(VerifyTtlSecs)]
    /\ issued' = [issued EXCEPT ![t].verify = vtok'[t].exp]
    /\ UNCHANGED <<clock, storeUp, user, rtok, epc, ecall, redeems, okCount, started,
                   notEphemeral>>

\* request_password_reset: a new random token is stored under password_reset:.
RequestPasswordReset(t) ==
    /\ storeUp
    /\ Unissued(t)
    /\ rtok' = [rtok EXCEPT ![t] = FreshToken(ResetTtlSecs)]
    /\ issued' = [issued EXCEPT ![t].reset = rtok'[t].exp]
    /\ UNCHANGED <<clock, storeUp, user, vtok, epc, ecall, redeems, okCount, started,
                   notEphemeral>>

\* verify_email is called with a raw token.
VerifyBegin(p, t) ==
    /\ epc[p] = "idle"
    /\ started < MaxRedeems
    /\ started' = started + 1
    /\ epc' = [epc EXCEPT ![p] = "v_get"]
    /\ ecall' = [ecall EXCEPT ![p] =
          [NoCall EXCEPT !.op = "verify", !.tok = t, !.late = AlreadyRedeemed("verify", t)]]
    /\ UNCHANGED <<clock, storeUp, user, vtok, rtok, issued, redeems, okCount, notEphemeral>>

\* verify_email, lines 225-231: get_verification_token and the checks on it.
VerifyGet(p) ==
    /\ epc[p] = "v_get"
    /\ storeUp
    /\ LET t == ecall[p].tok
           data == GetJson(vtok[t])
           c == [ecall[p] EXCEPT !.data = data, !.inTtl = clock < issued[t].verify,
                                !.known = issued[t].verify # NoExpiry]
       IN IF data = NoKey
          THEN EFinish(p, c, "Invalid", FALSE)
          ELSE IF data.used
          THEN EFinish(p, c, "AlreadyUsed", FALSE)
          ELSE /\ ecall' = [ecall EXCEPT ![p] = c]
               /\ epc' = [epc EXCEPT ![p] = "v_user"]
               /\ UNCHANGED <<redeems, okCount>>
    /\ UNCHANGED <<clock, storeUp, user, vtok, rtok, issued, started, notEphemeral>>

\* verify_email, lines 233-244: the identity is loaded; already verified is an error.
VerifyUser(p) ==
    /\ epc[p] = "v_user"
    /\ IF user.verified
       THEN EFinish(p, ecall[p], "AlreadyVerified", FALSE)
       ELSE /\ epc' = [epc EXCEPT ![p] = "v_mark_get"]
            /\ UNCHANGED <<ecall, redeems, okCount>>
    /\ UNCHANGED <<clock, storeUp, user, vtok, rtok, issued, started, notEphemeral>>

\* mark_verification_used, lines 143-145: the record is read again.
VerifyMarkGet(p) ==
    /\ epc[p] = "v_mark_get"
    /\ storeUp
    /\ LET data == GetJson(vtok[ecall[p].tok])
       IN IF data = NoKey
          THEN /\ epc' = [epc EXCEPT ![p] = "v_commit"]
               /\ UNCHANGED ecall
          ELSE /\ epc' = [epc EXCEPT ![p] = "v_mark_ttl"]
               /\ ecall' = [ecall EXCEPT ![p].data = [data EXCEPT !.used = TRUE]]
    /\ UNCHANGED <<clock, storeUp, user, vtok, rtok, issued, redeems, okCount, started,
                   notEphemeral>>

\* mark_verification_used, lines 147-148: the remaining time to live, in seconds.
VerifyMarkTtl(p) ==
    /\ epc[p] = "v_mark_ttl"
    /\ storeUp
    /\ LET rec == GetJson(vtok[ecall[p].tok])
       IN IF rec = NoKey
          THEN /\ epc' = [epc EXCEPT ![p] = "v_commit"]
               /\ UNCHANGED ecall
          ELSE \E ttl \in TtlReplies(rec.exp - clock) :
                  /\ ecall' = [ecall EXCEPT ![p].ttl = ttl]
                  /\ epc' = [epc EXCEPT ![p] = IF ttl > 0 THEN "v_mark_set" ELSE "v_commit"]
    /\ UNCHANGED <<clock, storeUp, user, vtok, rtok, issued, redeems, okCount, started,
                   notEphemeral>>

\* mark_verification_used, line 149: the record is written back with used=True.
VerifyMarkSet(p) ==
    /\ epc[p] = "v_mark_set"
    /\ storeUp
    /\ vtok' = [vtok EXCEPT ![ecall[p].tok] = SetEx(ecall[p].data, ecall[p].ttl)]
    /\ epc' = [epc EXCEPT ![p] = "v_commit"]
    /\ UNCHANGED <<clock, storeUp, user, rtok, ecall, issued, redeems, okCount, started,
                   notEphemeral>>

\* verify_email, lines 249-260: the verified flag is committed.
VerifyCommit(p) ==
    /\ epc[p] = "v_commit"
    /\ user' = [user EXCEPT !.verified = TRUE]
    /\ EFinish(p, ecall[p], "Ok", TRUE)
    /\ UNCHANGED <<clock, storeUp, vtok, rtok, issued, started, notEphemeral>>

\* reset_password, lines 403-406: the passwords are validated before any lookup.
ResetBegin(p, t, pw, valid) ==
    /\ epc[p] = "idle"
    /\ started < MaxRedeems
    /\ started' = started + 1
    /\ LET c == [NoCall EXCEPT !.op = "reset", !.tok = t, !.newpw = pw,
                               !.late = AlreadyRedeemed("reset", t)]
       IN IF valid
          THEN /\ epc' = [epc EXCEPT ![p] = "r_get"]
               /\ ecall' = [ecall EXCEPT ![p] = c]
               /\ UNCHANGED <<redeems, okCount>>
          ELSE EFinish(p, c, "Validation", FALSE)
    /\ UNCHANGED <<clock, storeUp, user, vtok, rtok, issued, notEphemeral>>

\* The error reset_password raises for a used token: the one it raises for a
\* missing or expired token (line 411-412).
ResetUsedError == "Invalid"

\* Faulty variant: reset_password also looks under the verification: prefix.
AnyPurposeRecord(t) == IF rtok[t] # NoKey THEN rtok[t] ELSE vtok[t]

\* reset_password, line 409: the record under f"password_reset:{token}".
PasswordResetRecord(t) == rtok[t]

\* reset_password, lines 409-412: the record is read; missing and used fail alike.
ResetGet(p) ==
    /\ epc[p] = "r_get"
    /\ storeUp
    /\ LET t == ecall[p].tok
           data == GetJson(PasswordResetRecord(t))
           c == [ecall[p] EXCEPT !.data = data, !.inTtl = clock < issued[t].reset,
                                !.known = issued[t].reset # NoExpiry]
       IN IF data = NoKey \/ data.used
          THEN EFinish(p, c, IF data = NoKey THEN "Invalid" ELSE ResetUsedError, FALSE)
          ELSE /\ ecall' = [ecall EXCEPT ![p] = c]
               /\ epc' = [epc EXCEPT ![p] = "r_mark"]
               /\ UNCHANGED <<redeems, okCount>>
    /\ UNCHANGED <<clock, storeUp, user, vtok, rtok, issued, started, notEphemeral>>

\* reset_password, lines 414-426: the identity is loaded and the record read at
\* line 409 is written back with used=True and a time to live of one hour.
ResetMark(p) ==
    /\ epc[p] = "r_mark"
    /\ storeUp
    /\ rtok' = [rtok EXCEPT ![ecall[p].tok] =
                   SetEx([ecall[p].data EXCEPT !.used = TRUE], ResetTtlSecs)]
    /\ epc' = [epc EXCEPT ![p] = "r_commit"]
    /\ UNCHANGED <<clock, storeUp, user, vtok, ecall, issued, redeems, okCount, started,
                   notEphemeral>>

\* reset_password, lines 428-448: the new password hash is committed.
ResetCommit(p) ==
    /\ epc[p] = "r_commit"
    /\ user' = [user EXCEPT !.password = ecall[p].newpw]
    /\ EFinish(p, ecall[p], "Ok", TRUE)
    /\ UNCHANGED <<clock, storeUp, vtok, rtok, issued, started, notEphemeral>>

\* verify_email, line 258, and reset_password, line 437: db.commit() raised;
\* the session's changes are not applied and the call ends in the error. The
\* store write made before it stays.
CommitFails(p) ==
    /\ epc[p] \in {"v_commit", "r_commit"}
    /\ EFinish(p, ecall[p], "CommitFailed", FALSE)
    /\ UNCHANGED <<clock, storeUp, user, vtok, rtok, issued, started, notEphemeral>>

\* Faulty variant: a store fault lets the operation through.
StoreFaultIgnored == "Ok"

\* The result of an AuthService operation one of whose store commands raised:
\* no handler catches the exception, so the request ends in that error.
StoreFault == "StoreUnavailable"

\* verify_email / reset_password: a store command (get, ttl, set) raised; the
\* call ends before db.commit().
RedeemStoreError(p) ==
    /\ epc[p] \in {"v_get", "v_mark_get", "v_mark_ttl", "v_mark_set", "r_get", "r_mark"}
    /\ ~storeUp
    /\ EFinish(p, [ecall[p] EXCEPT !.fault = TRUE], StoreFault, FALSE)
    /\ UNCHANGED <<clock, storeUp, user, vtok, rtok, issued, started, notEphemeral>>

TickEphemeral ==
    /\ clock < MaxTokTime
    /\ clock' = clock + 1
    /\ UNCHANGED <<storeUp, rlvars, evars, lvars, tvars, svars, wvars, mvars>>


----------------------------------------------------------------------------
(* RedisService: failed-login tracking; AuthService.login *)

\* The key has dropped out of the store.
FlExpired == flExpire # NoExpiry /\ clock >= flExpire

\* get(failed_login:<email>): the count, 0 standing for no key.
FlGet == IF FlExpired THEN 0 ELSE flCount

\* Faulty variant: locked only once the count exceeds max_attempts.
IsLockedAbove(count) == count # 0 /\ count > MaxAttempts

\* is_account_locked, lines 180-183: a key that exists with int(count) >= max_attempts.
IsAccountLocked(count) == count # 0 /\ count >= MaxAttempts

\* record_failed_login, line 169: is_locked = count >= max_attempts.
RecordIsLocked(count) == count >= MaxAttempts

\* Faulty variant: clearing leaves the key in place.
KeepFailedLogins == FlGet

\* clear_failed_logins: delete(key); the value left under the key.
ClearFailedLogins == 0

\* Ghost: the failures recorded on the counter the store now holds.
FailsNow == IF FlExpired THEN 0 ELSE fails

\* login is called with the identifier's email and a password.
LoginBegin(p, pwOk) ==
    /\ lpc[p] = "idle"
    /\ logins < MaxLogins
    /\ logins' = logins + 1
    /\ lpc' = [lpc EXCEPT ![p] = "l_locked"]
    /\ login' = [login EXCEPT ![p] = [NoLogin EXCEPT !.pwOk = pwOk]]
    /\ UNCHANGED <<clock, storeUp, user, flCount, flExpire, fails, clearedFrom, firstFail,
                   loginEvents, notLogin>>

\* login, lines 158-164: is_account_locked; a locked identifier fails at once.
LoginCheckLocked(p) ==
    /\ lpc[p] = "l_locked"
    /\ storeUp
    /\ LET c == [login[p] EXCEPT !.failsAtCheck = FailsNow]
       IN IF IsAccountLocked(FlGet)
          THEN /\ login' = [login EXCEPT ![p] = [c EXCEPT !.res = "AccountLocked"]]
               /\ lpc' = [lpc EXCEPT ![p] = "idle"]
          ELSE /\ login' = [login EXCEPT ![p] = c]
               /\ lpc' = [lpc EXCEPT ![p] = "l_cred"]
    /\ UNCHANGED <<clock, storeUp, user, flCount, flExpire, fails, clearedFrom, logins,
                   firstFail, loginEvents, notLogin>>

\* login, lines 166-186: identity lookup, credential check, active and verified.
LoginCredentials(p) ==
    /\ lpc[p] = "l_cred"
    /\ LET c == [login[p] EXCEPT !.credChecked = TRUE, !.found = user.exists]
       IN IF ~user.exists \/ ~login[p].pwOk
          THEN /\ login' = [login EXCEPT ![p] = c]
               /\ lpc' = [lpc EXCEPT ![p] = "l_incr"]
          ELSE IF ~user.active
          THEN /\ login' = [login EXCEPT ![p] = [c EXCEPT !.res = "AuthenticationFailed"]]
               /\ lpc' = [lpc EXCEPT ![p] = "idle"]
          ELSE IF ~user.verified
          THEN /\ login' = [login EXCEPT ![p] = [c EXCEPT !.res = "EmailNotVerified"]]
               /\ lpc' = [lpc EXCEPT ![p] = "idle"]
          ELSE /\ login' = [login EXCEPT ![p] = c]
               /\ lpc' = [lpc EXCEPT ![p] = "l_clear"]
    /\ UNCHANGED <<clock, storeUp, user, flCount, flExpire, fails, clearedFrom, logins,
                   firstFail, loginEvents, notLogin>>

\* _handle_failed_login, lines 502-517: the rows added after the count is
\* recorded; none without a user_id, else ACCOUNT_LOCKED or LOGIN_FAILED.
FailedLoginEvents(found, is_locked) ==
    IF ~found THEN << >>
    ELSE IF is_locked THEN << "account_locked" >>
    ELSE << "login_failed" >>

\* _handle_failed_login, lines 521-531: the account_locked alert.
LockoutAlert(found, is_locked) == found /\ is_locked

\* _handle_failed_login, lines 502-531, once record_failed_login has returned.
HandleFailedLogin(c) ==
    [c EXCEPT !.res = "AuthenticationFailed",
              !.events = FailedLoginEvents(c.found, c.isLocked),
              !.lockMail = LockoutAlert(c.found, c.isLocked)]

\* record_failed_login, lines 163-170: incr(key); a count other than 1 ends the call.
LoginRecordIncr(p) ==
    /\ lpc[p] = "l_incr"
    /\ storeUp
    /\ LET count == FlGet + 1
           c == [login[p] EXCEPT !.touched = TRUE, !.count = count,
                                 !.isLocked = RecordIsLocked(count),
                                 !.cleared = clearedFrom]
       IN /\ flCount' = count
          /\ flExpire' = IF FlGet = 0 THEN NoExpiry ELSE flExpire
          /\ fails' = IF FlGet = 0 THEN 1 ELSE fails + 1
          /\ clearedFrom' = -1
          /\ firstFail' = IF FlGet = 0 THEN clock ELSE firstFail
          /\ IF count = 1
             THEN /\ login' = [login EXCEPT ![p] = c]
                  /\ lpc' = [lpc EXCEPT ![p] = "l_expire"]
             ELSE /\ login' = [login EXCEPT ![p] = HandleFailedLogin(c)]
                  /\ lpc' = [lpc EXCEPT ![p] = "idle"]
    /\ UNCHANGED <<clock, storeUp, user, logins, loginEvents, notLogin>>

\* record_failed_login, lines 166-167: expire(key, lockout_minutes * 60) after the first failure.
LoginRecordExpire(p) ==
    /\ lpc[p] = "l_expire"
    /\ storeUp
    /\ flExpire' = IF FlGet = 0 THEN flExpire ELSE clock + Lockout
    /\ login' = [login EXCEPT ![p] = HandleFailedLogin(login[p])]
    /\ lpc' = [lpc EXCEPT ![p] = "idle"]
    /\ UNCHANGED <<clock, storeUp, user, flCount, fails, clearedFrom, logins, firstFail,
                   loginEvents, notLogin>>

\* login, lines 188-189: clear_failed_logins.
LoginClear(p) ==
    /\ lpc[p] = "l_clear"
    /\ storeUp
    /\ clearedFrom' = FlGet
    /\ flCount' = ClearFailedLogins
    /\ flExpire' = IF ClearFailedLogins = 0 THEN NoExpiry ELSE flExpire
    /\ fails' = IF ClearFailedLogins = 0 THEN 0 ELSE fails
    /\ firstFail' = IF ClearFailedLogins = 0 THEN NoExpiry ELSE firstFail
    /\ login' = [login EXCEPT ![p] = [@ EXCEPT !.touched = TRUE,
                                               !.countAfterClear = ClearFailedLogins]]
    /\ lpc' = [lpc EXCEPT ![p] = "l_device"]
    /\ UNCHANGED <<clock, storeUp, user, logins, loginEvents, notLogin>>

\* The ip_address values of the LOGIN_SUCCESS rows of the last 30 days.
KnownIps == {e.ip : e \in loginEvents} \ {"none"}

\* The device_fingerprint values of those rows.
KnownFingerprints == {e.device_fingerprint : e \in loginEvents} \ {"none"}

\* _check_new_device_ip, lines 554-582: the alert requested, "none" when neither
\* the address nor the fingerprint is new.
DeviceAlert(ip, fp) ==
    LET is_new_ip == ip # "none" /\ ip \notin KnownIps
        is_new_device == fp # "none" /\ fp \notin KnownFingerprints
    IN IF is_new_ip \/ is_new_device
       THEN (IF is_new_ip THEN "new_login" ELSE "new_device")
       ELSE "none"

\* _check_new_device_ip, lines 558-571: the row added, NEW_DEVICE_LOGIN if the
\* fingerprint is new, else NEW_IP_LOGIN; "none" when neither is new.
DeviceEvent(ip, fp) ==
    LET is_new_ip == ip # "none" /\ ip \notin KnownIps
        is_new_device == fp # "none" /\ fp \notin KnownFingerprints
    IN IF is_new_ip \/ is_new_device
       THEN (IF is_new_device THEN "new_device_login" ELSE "new_ip_login")
       ELSE "none"

\* Ghost: the addresses and the fingerprints of the successful logins so far.
SeenIps == {e.ip : e \in loginEvents}
SeenFingerprints == {e.metadata : e \in loginEvents}

\* Faulty variant: a failed delivery raises out of send_email.
SendEmailRaises(delivered) == IF delivered THEN "True" ELSE "raise"

\* EmailService.send_email: True when the message was handed over, False when
\* the attempt raised (the exception is caught and printed).
SendEmail(delivered) == IF delivered THEN "True" ELSE "False"

\* _log_security_event(LOGIN_SUCCESS, ip_address, user_agent, metadata=...): the
\* row added; the fingerprint goes into metadata, the column is left unset.
LoginSuccessEvent(ip, fp) == [ip |-> ip, device_fingerprint |-> "none", metadata |-> fp]

\* Faulty variant: the success path adds no row.
NoLoginSuccessRows(ip, fp) == << >>

\* login, lines 202-210: the LOGIN_SUCCESS rows one successful call adds.
LoginSuccessRows(ip, fp) == << LoginSuccessEvent(ip, fp) >>

\* login, lines 191-214: the device/IP check and its alert, then the token
\* pair, last_login_at, the LOGIN_SUCCESS event and the commit.
LoginDeviceCheck(p, client) ==
    /\ lpc[p] = "l_device"
    /\ LET alert == DeviceAlert(client.ip, client.fp)
           sent == IF alert = "none" THEN "none" ELSE SendEmail(client.delivered)
           c == [login[p] EXCEPT !.ip = client.ip, !.fp = client.fp, !.alert = alert,
                                 !.sent = sent,
                                 !.deviceEvent = DeviceEvent(client.ip, client.fp),
                                 !.ipSeen = client.ip \in SeenIps,
                                 !.fpSeen = client.fp \in SeenFingerprints]
       IN IF sent = "raise"
          THEN /\ login' = [login EXCEPT ![p] = [c EXCEPT !.res = "SMTPError"]]
               /\ UNCHANGED loginEvents
          ELSE /\ login' = [login EXCEPT ![p] =
                      [c EXCEPT !.res = "Ok", !.tokens = TRUE, !.lastLogin = TRUE,
                                !.nSuccess = Len(LoginSuccessRows(client.ip, client.fp))]]
               /\ loginEvents' = loginEvents \cup
                      {LoginSuccessRows(client.ip, client.fp)[i] :
                          i \in 1..Len(LoginSuccessRows(client.ip, client.fp))}
    /\ lpc' = [lpc EXCEPT ![p] = "idle"]
    /\ UNCHANGED <<clock, storeUp, user, flCount, flExpire, fails, clearedFrom, logins,
                   firstFail, notLogin>>

\* login: is_account_locked, record_failed_login or clear_failed_logins raised;
\* the call ends before _create_token_pair.
LoginStoreError(p) ==
    /\ lpc[p] \in {"l_locked", "l_incr", "l_expire", "l_clear"}
    /\ ~storeUp
    /\ login' = [login EXCEPT ![p] = [@ EXCEPT !.res = StoreFault, !.fault = TRUE]]
    /\ lpc' = [lpc EXCEPT ![p] = "idle"]
    /\ UNCHANGED <<clock, storeUp, user, flCount, flExpire, fails, clearedFrom, logins,
                   firstFail, loginEvents, notLogin>>

TickLogin ==
    /\ clock < MaxLoginTime
    /\ clock' = clock + 1
    /\ UNCHANGED <<storeUp, rlvars, evars, lvars, tvars, svars, wvars, mvars>>

----------------------------------------------------------------------------
(* core/security.py: the session-token codec; AuthService.refresh_tokens *)

\* jose stores a datetime claim as whole seconds since the epoch (timegm).
Timegm(t) == t \div TicksPerSec

\* create_access_token: the claims signed, exp = now + ACCESS_TOKEN_EXPIRE_MINUTES.
AccessClaims(sub) ==
    [type |-> "access", sub |-> sub, exp |-> Timegm(clock + AccessTtlSecs * TicksPerSec),
     jti |-> 0]

\* create_refresh_token: the claims signed, exp = now + REFRESH_TOKEN_EXPIRE_DAYS,
\* jti a fresh random value.
RefreshClaims(sub) ==
    [type |-> "refresh", sub |-> sub, exp |-> Timegm(clock + RefreshTtlSecs * TicksPerSec),
     jti |-> mints + 1]

\* _create_token_pair: one access and one refresh token for the identity.
CreateTokenPair(sub) == {AccessClaims(sub), RefreshClaims(sub)}

\* A claims set an attacker edits before presenting it: the expiry pushed out.
Forged(c) == [c EXCEPT !.exp = Timegm(MaxSessionTime) + RefreshTtlSecs]

\* The strings a caller can present: a string that is no JWT, a signed token
\* as issued, and an issued token whose signature no longer matches (claims
\* untouched or edited).
Presentable ==
    {[form |-> "malformed", sig |-> "none", claims |-> NoPayload]}
    \cup {[form |-> "jwt", sig |-> "valid", claims |-> c] : c \in minted}
    \cup {[form |-> "jwt", sig |-> "tampered", claims |-> c] :
             c \in minted \cup {Forged(d) : d \in minted}}

\* jwt.decode(token, SECRET_KEY, algorithms=[ALGORITHM]): the token is parsed,
\* its signature verified, then exp compared with the clock in whole seconds.
JwtDecode(tok) ==
    IF tok.form = "malformed" THEN [exc |-> "JWTError", payload |-> NoPayload]
    ELSE IF tok.sig # "valid" THEN [exc |-> "JWTError", payload |-> NoPayload]
    ELSE IF tok.claims.exp < Timegm(clock)
         THEN [exc |-> "ExpiredSignatureError", payload |-> NoPayload]
    ELSE [exc |-> "none", payload |-> tok.claims]

\* Faulty variant: the handler catches the base class only, not its subclasses.
JWTErrorBaseOnly == {"JWTError"}

\* except JWTError: the exception classes the clause catches (JWTError and its
\* subclasses ExpiredSignatureError and JWTClaimsError).
JWTErrorClasses == {"JWTError", "ExpiredSignatureError", "JWTClaimsError"}

\* Faulty variant: decode_token answers None for every token.
DecodeNothing(tok) == [exc |-> "none", payload |-> NoPayload]

\* decode_token: the payload, or None (NoPayload) when jwt.decode raised a JWTError.
decode_token(tok) ==
    LET r == JwtDecode(tok)
    IN IF r.exc \in JWTErrorClasses THEN [exc |-> "none", payload |-> NoPayload] ELSE r

\* Ghost: the defect of a presented token at the time it is presented.
Defect(tok) ==
    IF tok.form = "malformed" THEN "malformed"
    ELSE IF tok.sig # "valid" THEN "tampered"
    ELSE IF tok.claims.exp < Timegm(clock) THEN "expired"
    ELSE "none"

\* login (lines 158-214) by the active, verified identity with its password
\* while no failure is recorded: it ends in _create_token_pair.
LoginIssuesTokens ==
    /\ mints < MaxMints
    /\ user.exists /\ user.active /\ user.verified
    /\ FlGet = 0
    /\ minted' = minted \cup CreateTokenPair("u1")
    /\ mints' = mints + 1
    /\ UNCHANGED <<clock, storeUp, user, rres, bearer, notSession>>

\* Faulty variant: refresh_tokens accepts a payload of any type.
IsAnyType(payload) == TRUE

\* refresh_tokens, line 316: payload.get("type") != "refresh" is an error.
IsRefreshType(payload) == payload.type = "refresh"

\* get_current_user, line 27: payload.get("type") != "access" is an error.
IsAccessType(payload) == payload.type = "access"

\* refresh_tokens, lines 309-325.  The call has no await: it runs in one step.
RefreshTokens(p, tok) ==
    LET d == decode_token(tok)
        r == [NoRefresh EXCEPT !.defect = Defect(tok), !.exc = d.exc, !.decoded = d.payload,
                               !.afterLogout = (tok.sig = "valid" /\ tok.claims \in loggedOut),
                               !.afterReset = (tok.sig = "valid" /\ tok.claims \in preReset)]
    IN /\ IF d.exc # "none"
          THEN /\ rres' = [rres EXCEPT ![p] = [r EXCEPT !.res = d.exc]]
               /\ UNCHANGED <<minted, mints>>
          ELSE IF d.payload = NoPayload
          THEN /\ rres' = [rres EXCEPT ![p] = [r EXCEPT !.res = "Invalid refresh token"]]
               /\ UNCHANGED <<minted, mints>>
          ELSE IF ~IsRefreshType(d.payload)
          THEN /\ rres' = [rres EXCEPT ![p] = [r EXCEPT !.res = "Invalid token type"]]
               /\ UNCHANGED <<minted, mints>>
          ELSE IF ~(user.exists /\ d.payload.sub \in SessionUsers) \/ ~user.active
          THEN /\ rres' = [rres EXCEPT ![p] = [r EXCEPT !.res = "User not found or inactive"]]
               /\ UNCHANGED <<minted, mints>>
          ELSE /\ mints < MaxMints
               /\ rres' = [rres EXCEPT ![p] = [r EXCEPT !.res = "TokenPair", !.pair = TRUE,
                                                   !.active = user.exists /\ user.active]]
               /\ minted' = minted \cup CreateTokenPair(d.payload.sub)
               /\ mints' = mints + 1
       /\ UNCHANGED <<clock, storeUp, user, bearer, notSession>>

\* get_current_user, lines 24-39: the user, or the error raised.
CurrentUser(tok) ==
    LET d == decode_token(tok)
        r == [NoBearer EXCEPT !.defect = Defect(tok), !.decoded = d.payload]
        res == IF d.exc # "none" THEN d.exc
               ELSE IF d.payload = NoPayload \/ ~IsAccessType(d.payload)
                    THEN "Invalid access token"
               ELSE IF ~(user.exists /\ d.payload.sub \in SessionUsers) THEN "User not found"
               ELSE IF ~user.active THEN "User account is disabled"
               ELSE "User"
    IN [r EXCEPT !.res = res]

\* get_current_user, lines 19-39: the bearer credential of a request.
GetCurrentUser(tok) ==
    /\ bearer' = CurrentUser(tok)
    /\ UNCHANGED <<clock, storeUp, user, minted, mints, rres, notSession>>

\* The bearer credential of a logout request: a token as issued.
Bearers == {t \in Presentable : t.sig = "valid"}

\* The refresh_token field of a LogoutRequest: a refresh token as issued.
LogoutTokens == {t \in Presentable : t.sig = "valid" /\ t.claims.type = "refresh"}

\* routes/auth.py logout, lines 68-73, and AuthService.logout, lines 327-347:
\* past get_current_user, a LOGOUT row is added and committed; refresh_token
\* is not used.
Logout(access, refresh_token) ==
    /\ Len(sessionLog) < MaxSessionEvents
    /\ bearer' = CurrentUser(access)
    /\ IF CurrentUser(access).res = "User"
       THEN /\ sessionLog' = Append(sessionLog, "logout")
            /\ loggedOut' = loggedOut \cup {refresh_token.claims}
       ELSE UNCHANGED <<sessionLog, loggedOut>>
    /\ UNCHANGED <<clock, storeUp, user, minted, mints, rres, preReset, probe, rlvars, vtok,
                   rtok, epc, ecall, issued, redeems, okCount, started, lvars, svars, wvars,
                   dvars, ovars>>

\* reset_password (lines 393-448) with a live, unused token and a valid new
\* password: the new hash and a PASSWORD_RESET_COMPLETED row are committed.
ResetPasswordCompletes(pw) ==
    /\ Len(sessionLog) < MaxSessionEvents
    /\ user.exists
    /\ user' = [user EXCEPT !.password = pw]
    /\ sessionLog' = Append(sessionLog, "password_reset_completed")
    /\ preReset' = preReset \cup {c \in minted : c.type = "refresh"}
    /\ UNCHANGED <<clock, storeUp, tvars, loggedOut, probe, rlvars, vtok, rtok, epc, ecall,
                   issued, redeems, okCount, started, lvars, svars, wvars, dvars,
                   ovars>>

NoOAuth == [res |-> "none", pair |-> FALSE, active |-> FALSE, linked |-> FALSE]

\* OAuthService.handle_callback, lines 88-118, for a code the provider accepts
\* and whose email is the identity's: _find_or_create_user returns the user of
\* the linked account (lines 230-243) or, with no account linked, the user
\* with that email, to whom it links one (lines 246-296); is_active is not
\* read; then _create_token_pair.
OAuthCallback(linked) ==
    /\ mints < MaxMints
    /\ user.exists
    /\ oauth' = [res |-> "TokenPair", pair |-> TRUE, active |-> user.active,
                 linked |-> linked]
    /\ minted' = minted \cup CreateTokenPair("u1")
    /\ mints' = mints + 1
    /\ UNCHANGED <<clock, storeUp, user, rres, bearer, rlvars, vtok, rtok, epc, ecall, issued,
                   redeems, okCount, started, lvars, svars, wvars, probe, gvars, dvars>>

\* UserService.deactivate_user: is_active = False.
DeactivateUser ==
    /\ user.exists /\ user.active
    /\ user' = [user EXCEPT !.active = FALSE]
    /\ UNCHANGED <<clock, storeUp, tvars, notSession>>

\* UserService.activate_user: is_active = True.
ActivateUser ==
    /\ user.exists /\ ~user.active
    /\ user' = [user EXCEPT !.active = TRUE]
    /\ UNCHANGED <<clock, storeUp, tvars, notSession>>

TickSession ==
    /\ clock < MaxSessionTime
    /\ clock' = clock + 1
    /\ UNCHANGED <<storeUp, rlvars, evars, lvars, tvars, svars, wvars, mvars>>

----------------------------------------------------------------------------
(* AuthService.signup *)

\* _validate_password_strength: the list of errors for a password.
PasswordErrors(pw) ==
    (IF pw.len < MinPasswordLen THEN {"Password must be at least 8 characters"} ELSE {})
    \cup (IF ~pw.upper THEN {"Password must contain at least one uppercase letter"} ELSE {})
    \cup (IF ~pw.lower THEN {"Password must contain at least one lowercase letter"} ELSE {})
    \cup (IF ~pw.digit THEN {"Password must contain at least one number"} ELSE {})

\* Faulty variant: the duplicate-email check is skipped.
NeverExisting(email) == FALSE

\* signup, lines 88-92: the row found for the lower-cased email, if any.
Existing(email) == email \in dir

\* signup, lines 80-113: the confirmation, the password rules and the email are
\* checked in that order; then the row is added and flushed (users.email is
\* unique, so a row flushed by another signup in flight makes the flush fail).
SignupCheck(p, email, pw, matched) ==
    /\ spc[p] = "idle"
    /\ LET c == [NoSignup EXCEPT !.email = email, !.existed = email \in dir,
                                 !.compliant = PasswordErrors(pw) = {}, !.matched = matched]
       IN IF ~matched \/ PasswordErrors(pw) # {}
          THEN /\ signup' = [signup EXCEPT ![p] = [c EXCEPT !.res = "Validation"]]
               /\ UNCHANGED <<pending, spc>>
          ELSE IF Existing(email)
          THEN /\ signup' = [signup EXCEPT ![p] = [c EXCEPT !.res = "Conflict"]]
               /\ UNCHANGED <<pending, spc>>
          ELSE IF email \in pending
          THEN /\ signup' = [signup EXCEPT ![p] = [c EXCEPT !.res = "IntegrityError"]]
               /\ UNCHANGED <<pending, spc>>
          ELSE /\ signup' = [signup EXCEPT ![p] = [c EXCEPT !.created = TRUE]]
               /\ pending' = pending \cup {email}
               /\ spc' = [spc EXCEPT ![p] = "s_store"]
    /\ UNCHANGED <<clock, storeUp, dir, vtok, issued, notSignup>>

\* signup, lines 116-123: a fresh random token is stored under verification:.
SignupStore(p, t) ==
    /\ spc[p] = "s_store"
    /\ storeUp
    /\ Unissued(t)
    /\ vtok' = [vtok EXCEPT ![t] = FreshToken(VerifyTtlSecs)]
    /\ issued' = [issued EXCEPT ![t].verify = vtok'[t].exp]
    /\ signup' = [signup EXCEPT ![p] = [@ EXCEPT !.stored = TRUE, !.tok = t]]
    /\ spc' = [spc EXCEPT ![p] = "s_commit"]
    /\ UNCHANGED <<clock, storeUp, dir, pending, notSignup>>

\* signup: store_verification_token raised; the flushed row is never committed.
SignupStoreError(p) ==
    /\ spc[p] = "s_store"
    /\ ~storeUp
    /\ pending' = pending \ {signup[p].email}
    /\ signup' = [signup EXCEPT ![p] = [@ EXCEPT !.res = StoreFault, !.created = FALSE]]
    /\ spc' = [spc EXCEPT ![p] = "idle"]
    /\ UNCHANGED <<clock, storeUp, dir, vtok, issued, notSignup>>

\* signup, lines 125-134: the EMAIL_VERIFICATION_SENT event is added and the
\* identity, its role and the event are committed.
SignupCommit(p) ==
    /\ spc[p] = "s_commit"
    /\ dir' = dir \cup {signup[p].email}
    /\ pending' = pending \ {signup[p].email}
    /\ signup' = [signup EXCEPT ![p].logged = TRUE]
    /\ spc' = [spc EXCEPT ![p] = "s_mail"]
    /\ UNCHANGED <<clock, storeUp, vtok, issued, notSignup>>

\* signup, line 134: db.commit() raised; the flushed row is not committed and
\* the call ends in the error. The token stored at lines 119-123 stays.
SignupCommitFails(p) ==
    /\ spc[p] = "s_commit"
    /\ pending' = pending \ {signup[p].email}
    /\ signup' = [signup EXCEPT ![p] = [@ EXCEPT !.res = "CommitFailed", !.created = FALSE]]
    /\ spc' = [spc EXCEPT ![p] = "idle"]
    /\ UNCHANGED <<clock, storeUp, dir, vtok, issued, notSignup>>

\* signup, lines 136-143: the verification email is requested; send_email
\* reports a delivery failure as False, which signup does not look at.
SignupMail(p, delivered) ==
    /\ spc[p] = "s_mail"
    /\ signup' = [signup EXCEPT ![p] = [@ EXCEPT !.mailed = TRUE, !.res = "Ok"]]
    /\ spc' = [spc EXCEPT ![p] = "idle"]
    /\ UNCHANGED <<clock, storeUp, dir, pending, vtok, issued, notSignup>>

----------------------------------------------------------------------------
(* rate_limit: the decorator with a burst limiter *)

\* BURST_WINDOW, in ticks.
BurstWindow == BurstWindowTicks

\* get_client_identifier(request): the one client of the endpoint.
ClientIdentifier == [client |-> "c1", suffix |-> ""]

\* f"{identifier}:burst"
BurstIdentifier(identifier) == [identifier EXCEPT !.suffix = ":burst"]

\* is_allowed, line 113: key = f"ratelimit:{identifier}:{window}".
Key(identifier, window) == [identifier |-> identifier, window |-> window]

\* The arguments the wrapper passes to is_allowed in each of its two checks.
PhaseIdentifier(phase) ==
    IF phase = "burst" THEN BurstIdentifier(ClientIdentifier) ELSE ClientIdentifier
PhaseLimit(phase) == IF phase = "burst" THEN BurstSize ELSE RequestsPerMinute
PhaseWindow(phase) == IF phase = "burst" THEN BurstWindow ELSE Window
PhaseKey(phase) == Key(PhaseIdentifier(phase), PhaseWindow(phase))

BurstKey == PhaseKey("burst")
MainKey == PhaseKey("main")
WKeys == {BurstKey, MainKey}

\* What a command sees under a key: nothing once the key's expiry has passed.
WLive(k) == IF wzexpire[k] # NoExpiry /\ clock >= wzexpire[k] THEN {} ELSE wzset[k]

\* zremrangebyscore(key, 0, now - window) for the window of the call.
ZRemRangeByScoreIn(S, now, window) == {t \in S : ~(0 <= t /\ t <= now - window)}

\* An answer of is_allowed whose first component is True.
Allows(answer) == answer \in {"allowed", "failopen"}

\* Faulty variant: the handler runs once the burst limiter has allowed.
HandlerRunsOnBurstAlone(burst_allowed, is_allowed) == Allows(burst_allowed)

\* wrapper, lines 281-301: func is awaited when neither check raised.
HandlerRuns(burst_allowed, is_allowed) == Allows(burst_allowed) /\ Allows(is_allowed)

\* The Retry-After header of the HTTPException each check raises, -1 for none:
\* lines 281-284 give the burst rejection no headers, lines 295-299 give the
\* main rejection {"Retry-After": str(retry_after)}.
RetryAfterHeader(phase, retry_after) == IF phase = "burst" THEN -1 ELSE retry_after

\* The wrapper takes the answer of an is_allowed call, rec being the request
\* with its phase: lines 281-285 after the burst check, whose count and
\* retry_after it drops, lines 294-301 after the main check. The call's now
\* goes out of scope.
WrapperAnswer(p, rec, answer, retry) ==
    IF rec.phase = "burst"
    THEN IF Allows(answer)
         THEN /\ wreq' = [wreq EXCEPT ![p] = [rec EXCEPT !.burst = answer, !.ts = 0,
                                                         !.retry = 0]]
              /\ wpc' = [wpc EXCEPT ![p] = "main"]
         ELSE /\ wreq' = [wreq EXCEPT ![p] = [rec EXCEPT !.burst = answer, !.ts = 0,
                                                         !.retry = 0,
                                                         !.retryHeader =
                                                             RetryAfterHeader(rec.phase, retry),
                                                         !.returned = retry,
                                                         !.res = "429 burst"]]
              /\ wpc' = [wpc EXCEPT ![p] = "idle"]
    ELSE /\ wreq' = [wreq EXCEPT ![p] =
                [rec EXCEPT !.main = answer, !.retry = retry, !.ts = 0,
                            !.ran = HandlerRuns(rec.burst, answer),
                            !.retryHeader = IF Allows(answer) THEN -1
                                            ELSE RetryAfterHeader(rec.phase, retry),
                            !.returned = IF Allows(answer) THEN -1 ELSE retry,
                            !.res = IF HandlerRuns(rec.burst, answer)
                                    THEN "200" ELSE "429"]]
         /\ wpc' = [wpc EXCEPT ![p] = "idle"]

\* is_allowed, lines 107-113, for the check the wrapper is at: fetch the
\* client; without one, allow; else read the clock.
WrapperIsAllowedBegin(p, rec) ==
    /\ rlRedis' = GetRedis
    /\ IF GetRedis = "None"
       THEN WrapperAnswer(p, rec, "failopen", 0)
       ELSE /\ wreq' = [wreq EXCEPT ![p] = [rec EXCEPT !.ts = clock]]
            /\ wpc' = [wpc EXCEPT ![p] = "pipe"]

\* wrapper, lines 267-280: a request arrives; burst_size is set, so the burst
\* check is made first.
WrapperBegin(p) ==
    /\ wpc[p] = "idle"
    /\ requests < MaxRequests
    /\ requests' = requests + 1
    /\ WrapperIsAllowedBegin(p, [NoRequest EXCEPT !.phase = "burst"])
    /\ UNCHANGED <<clock, storeUp, wzset, wzexpire, notWrapper>>

\* wrapper, lines 287-292: the main check begins.
WrapperMainBegin(p) ==
    /\ wpc[p] = "main"
    /\ WrapperIsAllowedBegin(p, [wreq[p] EXCEPT !.phase = "main"])
    /\ UNCHANGED <<clock, storeUp, wzset, wzexpire, requests, notWrapper>>

\* Ghost: whether the request has an entry of its own under the key of a check,
\* put there by zadd (line 126) and not taken back by zrem (line 143).
Wrote(rec, phase, added) ==
    IF phase = "burst" THEN [rec EXCEPT !.burstAdded = added]
    ELSE [rec EXCEPT !.mainAdded = added]

\* is_allowed, lines 117-148, on the key of the check the wrapper is at.
WrapperPipeline(p) ==
    /\ wpc[p] = "pipe"
    /\ storeUp
    /\ LET phase == wreq[p].phase
           k == PhaseKey(phase)
           now == wreq[p].ts
           kept == ZRemRangeByScoreIn(WLive(k), now, PhaseWindow(phase))
           count == Cardinality(kept)
           rec == Wrote(wreq[p], phase, now \notin kept)
       IN /\ wzset' = [wzset EXCEPT ![k] = kept \cup {now}]
          /\ wzexpire' = [wzexpire EXCEPT ![k] = clock + PhaseWindow(phase) + TicksPerSec]
          /\ IF count >= PhaseLimit(phase)
             THEN /\ wpc' = [wpc EXCEPT ![p] = "oldest"]
                  /\ wreq' = [wreq EXCEPT ![p] = rec]
             ELSE WrapperAnswer(p, rec, "allowed", 0)
    /\ UNCHANGED <<clock, storeUp, rlRedis, requests, notWrapper>>

\* is_allowed, lines 136-140: zrange(key, 0, 0, withscores=True) and retry_after.
WrapperOldest(p) ==
    /\ wpc[p] = "oldest"
    /\ storeUp
    /\ LET k == PhaseKey(wreq[p].phase)
           window == PhaseWindow(wreq[p].phase)
       IN wreq' = [wreq EXCEPT ![p].retry =
                      IF WLive(k) # {}
                      THEN IntSecs(SetMin(WLive(k)) + window - wreq[p].ts) + 1
                      ELSE IntSecs(window)]
    /\ wpc' = [wpc EXCEPT ![p] = "zrem"]
    /\ UNCHANGED <<clock, storeUp, rlRedis, wzset, wzexpire, requests, notWrapper>>

\* is_allowed, lines 143-145: zrem(key, str(now)) and the rejection.
WrapperZrem(p) ==
    /\ wpc[p] = "zrem"
    /\ storeUp
    /\ LET k == PhaseKey(wreq[p].phase)
       IN wzset' = [wzset EXCEPT ![k] = WLive(k) \ {wreq[p].ts}]
    /\ WrapperAnswer(p, Wrote(wreq[p], wreq[p].phase, FALSE), "rejected", wreq[p].retry)
    /\ UNCHANGED <<clock, storeUp, rlRedis, wzexpire, requests, notWrapper>>

\* is_allowed, lines 150-153: a store command raised; the check allows.
WrapperStoreError(p) ==
    /\ wpc[p] \in {"pipe", "oldest", "zrem"}
    /\ ~storeUp
    /\ WrapperAnswer(p, wreq[p], "failopen", 0)
    /\ UNCHANGED <<clock, storeUp, rlRedis, wzset, wzexpire, requests, notWrapper>>

MaxWrapTime == BurstWindow + 1

TickWrapper ==
    /\ clock < MaxWrapTime
    /\ clock' = clock + 1
    /\ UNCHANGED <<storeUp, rlvars, evars, lvars, tvars, svars, wvars, mvars>>

----------------------------------------------------------------------------
(* rate_limiter.py: get_client_identifier, get_user_plan_from_request *)

\* The strings of at most n characters over HeaderChars.
RECURSIVE Strings(_)
Strings(n) ==
    IF n = 0 THEN {<< >>}
    ELSE Strings(n - 1) \cup {Append(h, c) : h \in {x \in Strings(n - 1) : Len(x) = n - 1},
                                               c \in HeaderChars}

\* request.state.user: absent, or an object that may have an id and may have a
\* subscription attribute, itself None or carrying plan_tier.
StateUsers ==
    {[present |-> FALSE, hasId |-> FALSE, subscription |-> "absent"]} \cup
    [present : {TRUE}, hasId : BOOLEAN, subscription : {"absent", "None"} \cup PlanValues]

\* request.state.token_data: the keys "sub" and "plan" it may carry.
TokenData == [hasSub : BOOLEAN, plan : {"absent"} \cup PlanValues]

\* The X-Forwarded-For header and request.client.
Requests ==
    [user : StateUsers, token_data : TokenData,
     forwarded : [present : {TRUE}, value : Strings(MaxHeaderLen)] \cup
                 {[present |-> FALSE, value |-> << >>]},
     client : BOOLEAN]

NewProbe(r) == [request |-> r, identified |-> FALSE,
                identifier |-> [kind |-> "none", value |-> << >>],
                planned |-> FALSE, plan |-> "none", limit |-> 0]

\* Python truth of a str, and of a dict with the keys modelled.
Truthy(str) == str.present /\ str.value # << >>
TruthyDict(d) == d.hasSub \/ d.plan # "absent"

\* Faulty variant: the last element of the chain.
RECURSIVE SplitLast(_)
SplitLast(h) ==
    IF \A i \in 1..Len(h) : h[i] # "," THEN h
    ELSE SplitLast(Tail(h))

\* forwarded.split(',')[0]
SplitFirst(h) ==
    IF \E i \in 1..Len(h) : h[i] = ","
    THEN SubSeq(h, 1, (CHOOSE i \in 1..Len(h) : h[i] = "," /\ \A j \in 1..(i - 1) : h[j] # ",") - 1)
    ELSE h

\* str.strip()
RECURSIVE Strip(_)
Strip(h) ==
    IF h = << >> THEN h
    ELSE IF Head(h) = " " THEN Strip(Tail(h))
    ELSE IF h[Len(h)] = " " THEN Strip(SubSeq(h, 1, Len(h) - 1))
    ELSE h

\* get_client_identifier, lines 63-78.
get_client_identifier(request) ==
    IF request.user.present /\ request.user.hasId
    THEN [kind |-> "user", value |-> UserId]
    ELSE IF TruthyDict(request.token_data) /\ request.token_data.hasSub
    THEN [kind |-> "user", value |-> TokenSub]
    ELSE IF Truthy(request.forwarded)
    THEN [kind |-> "ip", value |-> Strip(SplitFirst(request.forwarded.value))]
    ELSE [kind |-> "ip", value |-> IF request.client THEN ClientHost ELSE << "unknown" >>]

\* get_user_plan_from_request, lines 46-56.
get_user_plan_from_request(request) ==
    IF request.user.present /\ request.user.subscription # "absent"
    THEN (IF request.user.subscription # "None" THEN request.user.subscription ELSE "free")
    ELSE IF TruthyDict(request.token_data) /\ request.token_data.plan # "absent"
    THEN request.token_data.plan
    ELSE "free"

\* PLAN_RATE_LIMITS, lines 17-22.
PLAN_RATE_LIMITS ==
    [free |-> RateLimitFree, pro |-> RateLimitPro, business |-> RateLimitBusiness,
     enterprise |-> RateLimitEnterprise]

\* Faulty variant: an unknown plan gets the highest ceiling.
DefaultEnterprise == PLAN_RATE_LIMITS["enterprise"]

\* The default of PLAN_RATE_LIMITS.get(plan, PLAN_RATE_LIMITS["free"]).
DefaultLimit == PLAN_RATE_LIMITS["free"]

\* dispatch, line 214: limit = PLAN_RATE_LIMITS.get(plan, PLAN_RATE_LIMITS["free"]).
PlanLimit(plan) == IF plan \in DOMAIN PLAN_RATE_LIMITS THEN PLAN_RATE_LIMITS[plan] ELSE DefaultLimit

\* dispatch, line 210: identifier = get_client_identifier(request).
ResolveIdentifier ==
    /\ ~probe.identified
    /\ probe' = [probe EXCEPT !.identified = TRUE,
                              !.identifier = get_client_identifier(probe.request)]
    /\ UNCHANGED <<clock, storeUp, rlvars, evars, lvars, tvars, svars, wvars, gvars, dvars,
                   ovars>>

\* dispatch, lines 211-214: plan and limit.
ResolvePlan ==
    /\ ~probe.planned
    /\ probe' = [probe EXCEPT !.planned = TRUE,
                              !.plan = get_user_plan_from_request(probe.request),
                              !.limit = PlanLimit(get_user_plan_from_request(probe.request))]
    /\ UNCHANGED <<clock, storeUp, rlvars, evars, lvars, tvars, svars, wvars, gvars, dvars,
                   ovars>>

----------------------------------------------------------------------------
(* main.py, RateLimitMiddleware.dispatch, routes/auth.py: a request's way *)
(* from the application to its operation                                  *)

\* main.py, lines 24-30: the middleware the application adds.
MainStack == {"CORSMiddleware"}

\* The application of main.py, and one that also adds RateLimitMiddleware.
Stacks == {MainStack, MainStack \cup {"RateLimitMiddleware"}}

\* config.py, line 17, and routes/auth.py, line 18.
ApiPrefix == "/api/v1"
LoginPath == "/api/v1/auth/login"
RefreshPath == "/api/v1/auth/refresh"
LogoutPath == "/api/v1/auth/logout"

\* RateLimitMiddleware.EXCLUDED_PATHS, lines 187-197.
EXCLUDED_PATHS ==
    {"/health", "/docs", "/redoc", "/openapi.json", "/api/v1/auth/login",
     "/api/v1/auth/register", "/api/v1/auth/refresh", "/api/v1/webhooks/paystack",
     "/api/v1/webhooks/coinbase"}

RequestPaths == {LoginPath, RefreshPath, LogoutPath}
RequestMethods == {"POST", "OPTIONS"}

\* routes/auth.py, lines 39-73: the operation a POST reaches; the routes carry
\* no rate_limit decorator and no rate-limit dependency.
RouteOperation(path, method) ==
    IF method # "POST" THEN "none"
    ELSE IF path = LoginPath THEN "login"
    ELSE IF path = RefreshPath THEN "refresh"
    ELSE IF path = LogoutPath THEN "logout"
    ELSE "none"

\* dispatch, lines 201-207: the requests the middleware passes on unchecked.
SkipsRateLimit(path, method) == path \in EXCLUDED_PATHS \/ method = "OPTIONS"

NoDispatch == [path |-> "none", method |-> "none", prev |-> 0, checked |-> FALSE,
               allowed |-> FALSE, res |-> "none", op |-> "none", retry |-> 0,
               retryAfter |-> 0, n |-> 0]

\* Ghost: the requests received so far.
Received == dreq["h1"].n + dreq["h2"].n

\* A request arrives.  Without RateLimitMiddleware in the stack it goes to the
\* router; with it, dispatch (lines 200-207) passes excluded paths and OPTIONS
\* on and sends the others to is_allowed.
Receive(p, path, method) ==
    /\ dpc[p] = "idle"
    /\ rlpc[p] = "idle"
    /\ Received < MaxCalls
    /\ dreq' = [dreq EXCEPT ![p] = [NoDispatch EXCEPT !.path = path, !.method = method,
                                                      !.prev = rlcall[p],
                                                      !.n = dreq[p].n + 1]]
    /\ dpc' = [dpc EXCEPT ![p] =
                  IF "RateLimitMiddleware" \in stack /\ ~SkipsRateLimit(path, method)
                  THEN "check" ELSE "route"]
    /\ UNCHANGED <<clock, storeUp, rlvars, evars, lvars, tvars, svars, wvars, probe, gvars,
                   stack, ovars>>

\* dispatch, lines 216-220: the call of rate_limiter.is_allowed.
DispatchIsAllowed(p) ==
    /\ dpc[p] = "check"
    /\ \/ rlcall[p] = dreq[p].prev /\ IsAllowedBegin(p)
       \/ IsAllowedPipeline(p)
       \/ IsAllowedOldest(p)
       \/ IsAllowedZrem(p)
       \/ IsAllowedStoreError(p)

\* dispatch, lines 222-239: the answer; a rejection is a 429 with retry_after
\* in the body and in the Retry-After header.
DispatchAnswer(p) ==
    /\ dpc[p] = "check"
    /\ rlcall[p] # dreq[p].prev
    /\ rlpc[p] = "idle"
    /\ LET ans == calls[rlcall[p]]
       IN IF ~ans.allowed
          THEN /\ dreq' = [dreq EXCEPT ![p] = [@ EXCEPT !.checked = TRUE, !.res = "429",
                                                        !.retry = ans.retry,
                                                        !.retryAfter = ans.retry]]
               /\ dpc' = [dpc EXCEPT ![p] = "idle"]
          ELSE /\ dreq' = [dreq EXCEPT ![p] = [@ EXCEPT !.checked = TRUE, !.allowed = TRUE]]
               /\ dpc' = [dpc EXCEPT ![p] = "route"]
    /\ UNCHANGED <<clock, storeUp, rlvars, evars, lvars, tvars, svars, wvars, probe, gvars,
                   stack, ovars>>

\* call_next(request): the router runs the route's operation.
CallNext(p) ==
    /\ dpc[p] = "route"
    /\ dreq' = [dreq EXCEPT ![p] =
                   [@ EXCEPT !.op = RouteOperation(dreq[p].path, dreq[p].method),
                             !.res = "routed"]]
    /\ dpc' = [dpc EXCEPT ![p] = "idle"]
    /\ UNCHANGED <<clock, storeUp, rlvars, evars, lvars, tvars, svars, wvars, probe, gvars,
                   stack, ovars>>

----------------------------------------------------------------------------
(* Environment *)

Tick ==
    /\ clock < MaxTime
    /\ clock' = clock + 1
    /\ UNCHANGED <<storeUp, rlvars, notLimiter>>

StoreFails ==
    /\ storeUp
    /\ storeUp' = FALSE
    /\ UNCHANGED <<clock, rlvars, notLimiter>>

StoreRecovers ==
    /\ ~storeUp
    /\ storeUp' = TRUE
    /\ UNCHANGED <<clock, rlvars, notLimiter>>

----------------------------------------------------------------------------
InitLimiter ==
    /\ rlRedis = "None"
    /\ zset = {}
    /\ zexpire = NoExpiry
    /\ rlpc = [p \in RLProcs |-> "idle"]
    /\ rlcall = [p \in RLProcs |-> 0]
    /\ calls = <<>>
    /\ overlapped = FALSE

InitEphemeral ==
    /\ user = [exists |-> TRUE, active |-> TRUE, verified |-> FALSE, password |-> "pw0"]
    /\ vtok = [t \in Tokens |-> NoKey]
    /\ rtok = [t \in Tokens |-> NoKey]
    /\ epc = [p \in Handlers |-> "idle"]
    /\ ecall = [p \in Handlers |-> NoCall]
    /\ issued = [t \in Tokens |-> [verify |-> NoExpiry, reset |-> NoExpiry]]
    /\ redeems = [p \in Handlers |-> NoOutcome]
    /\ okCount = [op \in {"verify", "reset"} |-> [t \in Tokens |-> 0]]
    /\ started = 0

InitGuard ==
    /\ flCount = 0
    /\ flExpire = NoExpiry
    /\ lpc = [p \in Handlers |-> "idle"]
    /\ login = [p \in Handlers |-> NoLogin]
    /\ fails = 0
    /\ clearedFrom = -1
    /\ logins = 0
    /\ firstFail = NoExpiry
    /\ loginEvents = {}

InitSession ==
    /\ minted = {}
    /\ mints = 0
    /\ rres = [p \in RefreshCallers |-> NoRefresh]
    /\ bearer = NoBearer

InitDirectory ==
    /\ dir = {}
    /\ pending = {}
    /\ spc = [p \in Handlers |-> "idle"]
    /\ signup = [p \in Handlers |-> NoSignup]

InitWrapper ==
    /\ wzset = [k \in WKeys |-> {}]
    /\ wzexpire = [k \in WKeys |-> NoExpiry]
    /\ wpc = [p \in Wrappers |-> "idle"]
    /\ wreq = [p \in Wrappers |-> NoRequest]
    /\ requests = 0

DefaultRequest ==
    [user |-> [present |-> FALSE, hasId |-> FALSE, subscription |-> "absent"],
     token_data |-> [hasSub |-> FALSE, plan |-> "absent"],
     forwarded |-> [present |-> FALSE, value |-> << >>], client |-> TRUE]

InitMiddleware(added) ==
    /\ oauth = NoOAuth
    /\ stack = added
    /\ dpc = [p \in RLProcs |-> "idle"]
    /\ dreq = [p \in RLProcs |-> NoDispatch]

InitProbe ==
    /\ probe = NewProbe(DefaultRequest)
    /\ loggedOut = {}
    /\ preReset = {}
    /\ sessionLog = << >>
    /\ InitMiddleware(MainStack)

InitRateLimit ==
    /\ clock = 0
    /\ storeUp \in BOOLEAN
    /\ InitLimiter
    /\ InitEphemeral
    /\ InitGuard
    /\ InitSession
    /\ InitDirectory
    /\ InitWrapper
    /\ InitProbe

NextRateLimit ==
    \/ \E p \in RLProcs : IsAllowedBegin(p)
    \/ \E p \in RLProcs : IsAllowedPipeline(p)
    \/ \E p \in RLProcs : IsAllowedOldest(p)
    \/ \E p \in RLProcs : IsAllowedZrem(p)
    \/ \E p \in RLProcs : IsAllowedStoreError(p)
    \/ Tick
    \/ StoreFails
    \/ StoreRecovers

SpecRateLimit == InitRateLimit /\ [][NextRateLimit]_vars

InitTokens ==
    /\ clock = 0
    /\ storeUp = TRUE
    /\ InitLimiter
    /\ InitEphemeral
    /\ InitGuard
    /\ InitSession
    /\ InitDirectory
    /\ InitWrapper
    /\ InitProbe

NextEphemeral ==
    \/ \E t \in VerifyTokens : ResendVerification(t)
    \/ \E t \in ResetTokens : RequestPasswordReset(t)
    \/ \E p \in Handlers, t \in Tokens : VerifyBegin(p, t)
    \/ \E p \in Handlers : VerifyGet(p)
    \/ \E p \in Handlers : VerifyUser(p)
    \/ \E p \in Handlers : VerifyMarkGet(p)
    \/ \E p \in Handlers : VerifyMarkTtl(p)
    \/ \E p \in Handlers : VerifyMarkSet(p)
    \/ \E p \in Handlers : VerifyCommit(p)
    \/ \E p \in Handlers, t \in Tokens, pw \in NewPasswords, valid \in BOOLEAN :
          ResetBegin(p, t, pw, valid)
    \/ \E p \in Handlers : ResetGet(p)
    \/ \E p \in Handlers : ResetMark(p)
    \/ \E p \in Handlers : ResetCommit(p)
    \/ TickEphemeral

SpecEphemeral == InitTokens /\ [][NextEphemeral]_vars

\* Raw tokens presented to either redemption, within their time to live.
NextPurpose ==
    \/ \E t \in VerifyTokens : ResendVerification(t)
    \/ \E t \in ResetTokens : RequestPasswordReset(t)
    \/ \E p \in Handlers, t \in Tokens : VerifyBegin(p, t)
    \/ \E p \in Handlers : VerifyGet(p)
    \/ \E p \in Handlers : VerifyUser(p)
    \/ \E p \in Handlers : VerifyMarkGet(p)
    \/ \E p \in Handlers : VerifyMarkTtl(p)
    \/ \E p \in Handlers : VerifyMarkSet(p)
    \/ \E p \in Handlers : VerifyCommit(p)
    \/ \E p \in Handlers, t \in Tokens, pw \in NewPasswords, valid \in BOOLEAN :
          ResetBegin(p, t, pw, valid)
    \/ \E p \in Handlers : ResetGet(p)
    \/ \E p \in Handlers : ResetMark(p)
    \/ \E p \in Handlers : ResetCommit(p)

SpecPurpose == InitTokens /\ [][NextPurpose]_vars

\* Redemptions while the directory's commit and the store can fail.
NextCommit ==
    \/ NextEphemeral
    \/ \E p \in Handlers : CommitFails(p)
    \/ \E p \in Handlers : RedeemStoreError(p)
    \/ StoreFails
    \/ StoreRecovers

SpecCommit == InitTokens /\ [][NextCommit]_vars

InitLogin ==
    /\ clock = 0
    /\ storeUp = TRUE
    /\ InitLimiter
    /\ vtok = [t \in Tokens |-> NoKey]
    /\ rtok = [t \in Tokens |-> NoKey]
    /\ epc = [p \in Handlers |-> "idle"]
    /\ ecall = [p \in Handlers |-> NoCall]
    /\ issued = [t \in Tokens |-> [verify |-> NoExpiry, reset |-> NoExpiry]]
    /\ redeems = [p \in Handlers |-> NoOutcome]
    /\ okCount = [op \in {"verify", "reset"} |-> [t \in Tokens |-> 0]]
    /\ started = 0
    /\ user \in {[exists |-> e, active |-> a, verified |-> v, password |-> "pw0"] :
                    e \in BOOLEAN, a \in BOOLEAN, v \in BOOLEAN}
    /\ ~user.exists => ~user.active /\ ~user.verified
    /\ InitGuard
    /\ InitSession
    /\ InitDirectory
    /\ InitWrapper
    /\ InitProbe

NextLogin ==
    \/ \E p \in Handlers, pwOk \in BOOLEAN : LoginBegin(p, pwOk)
    \/ \E p \in Handlers : LoginCheckLocked(p)
    \/ \E p \in Handlers : LoginCredentials(p)
    \/ \E p \in Handlers : LoginRecordIncr(p)
    \/ \E p \in Handlers : LoginRecordExpire(p)
    \/ \E p \in Handlers : LoginClear(p)
    \/ \E p \in Handlers, client \in KnownClient : LoginDeviceCheck(p, client)
    \/ TickLogin

SpecLogin == InitLogin /\ [][NextLogin]_vars

\* Operations of AuthService while the store comes and goes.
InitOutage ==
    /\ clock = 0
    /\ storeUp \in BOOLEAN
    /\ InitLimiter
    /\ InitEphemeral
    /\ InitGuard
    /\ InitSession
    /\ InitDirectory
    /\ InitWrapper
    /\ InitProbe

NextOutage ==
    \/ \E t \in VerifyTokens : ResendVerification(t)
    \/ \E t \in ResetTokens : RequestPasswordReset(t)
    \/ \E p \in OutageRedeemers, t \in Tokens : VerifyBegin(p, t)
    \/ \E p \in OutageRedeemers : VerifyGet(p)
    \/ \E p \in OutageRedeemers : VerifyUser(p)
    \/ \E p \in OutageRedeemers : VerifyMarkGet(p)
    \/ \E p \in OutageRedeemers : VerifyMarkTtl(p)
    \/ \E p \in OutageRedeemers : VerifyMarkSet(p)
    \/ \E p \in OutageRedeemers : VerifyCommit(p)
    \/ \E p \in OutageRedeemers, t \in Tokens, pw \in NewPasswords, valid \in BOOLEAN :
          ResetBegin(p, t, pw, valid)
    \/ \E p \in OutageRedeemers : ResetGet(p)
    \/ \E p \in OutageRedeemers : ResetMark(p)
    \/ \E p \in OutageRedeemers : ResetCommit(p)
    \/ \E p \in OutageRedeemers : RedeemStoreError(p)
    \/ \E p \in OutageLogins, pwOk \in BOOLEAN : LoginBegin(p, pwOk)
    \/ \E p \in OutageLogins : LoginCheckLocked(p)
    \/ \E p \in OutageLogins : LoginCredentials(p)
    \/ \E p \in OutageLogins : LoginRecordIncr(p)
    \/ \E p \in OutageLogins : LoginRecordExpire(p)
    \/ \E p \in OutageLogins : LoginClear(p)
    \/ \E p \in OutageLogins, client \in KnownClient : LoginDeviceCheck(p, client)
    \/ \E p \in OutageLogins : LoginStoreError(p)
    \/ StoreFails
    \/ StoreRecovers

SpecOutage == InitOutage /\ [][NextOutage]_vars

InitRefresh ==
    /\ clock = 0
    /\ storeUp = TRUE
    /\ InitLimiter
    /\ vtok = [t \in Tokens |-> NoKey]
    /\ rtok = [t \in Tokens |-> NoKey]
    /\ epc = [p \in Handlers |-> "idle"]
    /\ ecall = [p \in Handlers |-> NoCall]
    /\ issued = [t \in Tokens |-> [verify |-> NoExpiry, reset |-> NoExpiry]]
    /\ redeems = [p \in Handlers |-> NoOutcome]
    /\ okCount = [op \in {"verify", "reset"} |-> [t \in Tokens |-> 0]]
    /\ started = 0
    /\ user = [exists |-> TRUE, active |-> TRUE, verified |-> TRUE, password |-> "pw0"]
    /\ InitGuard
    /\ InitSession
    /\ InitDirectory
    /\ InitWrapper
    /\ InitProbe

NextRefresh ==
    \/ LoginIssuesTokens
    \/ \E p \in RefreshCallers : \E tok \in Presentable : RefreshTokens(p, tok)
    \/ DeactivateUser
    \/ ActivateUser
    \/ TickSession

SpecRefresh == InitRefresh /\ [][NextRefresh]_vars

\* Requests of one client to an endpoint decorated with rate_limit(requests_per_minute,
\* burst_size).
NextBurst ==
    \/ \E p \in Wrappers : WrapperBegin(p)
    \/ \E p \in Wrappers : WrapperMainBegin(p)
    \/ \E p \in Wrappers : WrapperPipeline(p)
    \/ \E p \in Wrappers : WrapperOldest(p)
    \/ \E p \in Wrappers : WrapperZrem(p)
    \/ \E p \in Wrappers : WrapperStoreError(p)
    \/ TickWrapper
    \/ StoreFails
    \/ StoreRecovers

SpecBurst == InitRateLimit /\ [][NextBurst]_vars

\* The limiter's helpers applied to every request shape.
InitResolve ==
    /\ clock = 0
    /\ storeUp = TRUE
    /\ InitLimiter
    /\ InitEphemeral
    /\ InitGuard
    /\ InitSession
    /\ InitDirectory
    /\ InitWrapper
    /\ probe \in {NewProbe(r) : r \in Requests}
    /\ loggedOut = {}
    /\ preReset = {}
    /\ sessionLog = << >>
    /\ InitMiddleware(MainStack)

NextResolve ==
    \/ ResolveIdentifier
    \/ ResolvePlan

SpecResolve == InitResolve /\ [][NextResolve]_vars

\* Requests through the application's middleware to their routes.
InitDispatch ==
    /\ clock = 0
    /\ storeUp \in BOOLEAN
    /\ InitLimiter
    /\ InitEphemeral
    /\ InitGuard
    /\ InitSession
    /\ InitDirectory
    /\ InitWrapper
    /\ probe = NewProbe(DefaultRequest)
    /\ loggedOut = {}
    /\ preReset = {}
    /\ sessionLog = << >>
    /\ \E added \in Stacks : InitMiddleware(added)

NextDispatch ==
    \/ \E p \in RLProcs, path \in RequestPaths, method \in RequestMethods :
          Receive(p, path, method)
    \/ \E p \in RLProcs : DispatchIsAllowed(p)
    \/ \E p \in RLProcs : DispatchAnswer(p)
    \/ \E p \in RLProcs : CallNext(p)
    \/ Tick
    \/ StoreFails
    \/ StoreRecovers

SpecDispatch == InitDispatch /\ [][NextDispatch]_vars

\* Sessions across logout and password reset.
NextLogout ==
    \/ LoginIssuesTokens
    \/ \E tok \in Presentable : RefreshTokens("r1", tok)
    \/ \E access \in Bearers, refresh_token \in LogoutTokens : Logout(access, refresh_token)
    \/ \E pw \in NewPasswords : ResetPasswordCompletes(pw)
    \/ TickSession

SpecLogout == InitRefresh /\ [][NextLogout]_vars

\* Logins of one caller from changing addresses and devices.
NextDevice ==
    \/ \E p \in DeviceLogins, pwOk \in BOOLEAN : LoginBegin(p, pwOk)
    \/ \E p \in DeviceLogins : LoginCheckLocked(p)
    \/ \E p \in DeviceLogins : LoginCredentials(p)
    \/ \E p \in DeviceLogins : LoginRecordIncr(p)
    \/ \E p \in DeviceLogins : LoginRecordExpire(p)
    \/ \E p \in DeviceLogins : LoginClear(p)
    \/ \E p \in DeviceLogins, client \in AnyClient : LoginDeviceCheck(p, client)

SpecDevice == InitLogin /\ [][NextDevice]_vars

InitSignup ==
    /\ clock = 0
    /\ storeUp \in BOOLEAN
    /\ InitLimiter
    /\ InitEphemeral
    /\ InitGuard
    /\ InitSession
    /\ InitDirectory
    /\ InitWrapper
    /\ InitProbe

NextSignup ==
    \/ \E p \in Handlers, email \in Emails, pw \in SignupPasswords, matched \in BOOLEAN :
          SignupCheck(p, email, pw, matched)
    \/ \E p \in Handlers, t \in Tokens : SignupStore(p, t)
    \/ \E p \in Handlers : SignupStoreError(p)
    \/ \E p \in Handlers : SignupCommit(p)
    \/ \E p \in Handlers, delivered \in BOOLEAN : SignupMail(p, delivered)
    \/ StoreFails
    \/ StoreRecovers

SpecSignup == InitSignup /\ [][NextSignup]_vars

\* Signups while the directory's commit can fail.
NextEnrol ==
    \/ NextSignup
    \/ \E p \in Handlers : SignupCommitFails(p)

SpecEnrol == InitSignup /\ [][NextEnrol]_vars

\* The three operations that issue token pairs, for an identity that an
\* administrator disables and reactivates.
NextIssue ==
    \/ LoginIssuesTokens
    \/ \E tok \in Presentable : RefreshTokens("r1", tok)
    \/ \E linked \in BOOLEAN : OAuthCallback(linked)
    \/ DeactivateUser
    \/ ActivateUser
    \/ TickSession

SpecIssue == InitRefresh /\ [][NextIssue]_vars

\* Session tokens presented to refresh_tokens and as bearer credentials.
NextBearer ==
    \/ LoginIssuesTokens
    \/ \E p \in BearerCallers : \E tok \in Presentable : RefreshTokens(p, tok)
    \/ \E tok \in Presentable : GetCurrentUser(tok)
    \/ DeactivateUser
    \/ ActivateUser
    \/ TickSession

SpecBearer == InitRefresh /\ [][NextBearer]_vars

----------------------------------------------------------------------------
(* Claims on the rate limiter, checked under SpecRateLimit *)

Decided(i) == calls[i].st \in {"allowed", "rejected"}

AllowedIn(lo, hi) ==
    {i \in DOMAIN calls : calls[i].st = "allowed" /\ calls[i].ts > lo /\ calls[i].ts <= hi}

\* C1: starting from an empty window, of the calls of one identifier made one
\* after another within Window of the first, the k-th (k <= Limit) is allowed
\* and reports remaining = Limit - k, and call Limit + 1 is rejected with
\* remaining 0 and retry_after > 0.
C1_FirstLimitCallsThenReject ==
    ~overlapped =>
        \A k \in DOMAIN calls :
            (\A j \in 1..k : Decided(j) /\ calls[j].ts - calls[1].ts < Window) =>
                /\ k <= Limit => calls[k].allowed /\ calls[k].remaining = Limit - k
                /\ k = Limit + 1 =>
                      ~calls[k].allowed /\ calls[k].remaining = 0 /\ calls[k].retry > 0

C8_AllowedNeverExceedLimit ==
    \A t \in 0..MaxTime : Cardinality(AllowedIn(t - Window, t)) <= Limit

\* C9: the count each decision is based on equals the number of previously
\* allowed requests with a timestamp in (now - Window, now].
C9_CountIsExact ==
    \A i \in DOMAIN calls :
        calls[i].st \in {"allowed", "counted", "rejected"} => calls[i].count = calls[i].exact

\* C10: a call that met a store fault (no client, or a command that raised)
\* is answered allowed=true with retry_after = 0.
C10_FailOpen ==
    \A i \in DOMAIN calls :
        calls[i].fault => calls[i].allowed /\ calls[i].retry = 0 /\ calls[i].st = "failopen"

C10_Witness ==
    \E i \in DOMAIN calls : calls[i].fault /\ calls[i].count >= Limit /\ calls[i].allowed

\* C32: once the calls made so far have all returned, none of them on a store
\* fault, the set holds as many entries inside the window as there were
\* allowed requests with timestamps inside the window.
C32_OneEntryPerAllowedRequest ==
    (/\ \A p \in RLProcs : rlpc[p] = "idle"
     /\ \A i \in DOMAIN calls : ~calls[i].fault)
        => Cardinality({t \in Live : t > clock - Window})
             = Cardinality({i \in DOMAIN calls :
                               calls[i].st = "allowed" /\ calls[i].ts > clock - Window})

\* C26: at all times the identifier's set holds only timestamps of requests
\* that were allowed; a call that is going to be, or has been, rejected has
\* not put its timestamp there.
C26_RejectedNeverWrites ==
    Live \subseteq {calls[i].ts : i \in {j \in DOMAIN calls : calls[j].allowed}}

\* C27: a rejected call's retry_after is the oldest timestamp left after the
\* prune, plus the window, minus the call's now.
C27_RetryAfterFromOldest ==
    \A i \in DOMAIN calls :
        calls[i].st = "rejected" =>
            calls[i].retry * TicksPerSec = calls[i].oldest + Window - calls[i].ts

\* C28: every call answered by a fail-open path has emitted a log record.
C28_FailOpenIsLogged ==
    \A i \in DOMAIN calls : calls[i].st = "failopen" => calls[i].logged

----------------------------------------------------------------------------
(* Claims on the ephemeral tokens, checked under SpecEphemeral *)

\* C3: a redemption of a raw token begun after a successful redemption of that
\* token, and looking it up before its time to live has elapsed, fails with
\* AlreadyUsed and commits no change to the identity.
C3_LaterRedemptionAlreadyUsed ==
    \A p \in Handlers :
        redeems[p].late /\ redeems[p].inTtl =>
            redeems[p].res = "AlreadyUsed" /\ ~redeems[p].changed

\* C4: of all redemptions of one raw token for one purpose, at most one succeeds.
C4_AtMostOneRedemptionSucceeds ==
    \A t \in Tokens, op \in {"verify", "reset"} : okCount[op][t] <= 1

\* C13: a stored record that is marked used expires at the instant it was
\* issued with, for verify-email and reset-password tokens alike.
C13_MarkKeepsExpiry ==
    \A t \in Tokens :
        /\ GetJson(vtok[t]) # NoKey /\ vtok[t].used => vtok[t].exp = issued[t].verify
        /\ GetJson(rtok[t]) # NoKey /\ rtok[t].used => rtok[t].exp = issued[t].reset

\* C16: a finished verify_email call changed the identity only if it succeeded,
\* and its failure tells the cases apart: Invalid for a raw token never issued
\* for verify-email, Expired for one looked up after its time to live.
C16_VerifyOutcomesDistinguished ==
    \A p \in Handlers :
        redeems[p].op = "verify" =>
            /\ redeems[p].changed <=> redeems[p].res = "Ok"
            /\ ~redeems[p].known => redeems[p].res = "Invalid"
            /\ redeems[p].known /\ ~redeems[p].inTtl => redeems[p].res = "Expired"

\* C38: a redemption succeeded only with a raw token that had been issued for
\* its own purpose: verify_email with one stored under verification:,
\* reset_password with one stored under password_reset:.
C38_TokensBoundToPurpose ==
    \A p \in Handlers :
        redeems[p].res = "Ok" =>
            /\ redeems[p].op = "verify" => issued[redeems[p].tok].verify # NoExpiry
            /\ redeems[p].op = "reset" => issued[redeems[p].tok].reset # NoExpiry

C38_Witness ==
    \E p, q \in Handlers :
        /\ redeems[p].op = "reset" /\ redeems[p].res = "Invalid"
        /\ GetJson(vtok[redeems[p].tok]) # NoKey /\ ~GetJson(vtok[redeems[p].tok]).used
        /\ redeems[q].op = "verify" /\ redeems[q].res = "Invalid"
        /\ GetJson(rtok[redeems[q].tok]) # NoKey /\ ~GetJson(rtok[redeems[q].tok]).used

----------------------------------------------------------------------------
(* Claim on redemption and commit, checked under SpecCommit *)

\* C34: while no redemption is in progress, a verification token the store
\* holds as used belongs to an identity whose verified flag is committed, and
\* a reset token the store holds as used has had its new password committed.
C34_UsedOnlyIfCommitted ==
    (\A p \in Handlers : epc[p] = "idle") =>
        \A t \in Tokens :
            /\ (GetJson(vtok[t]) # NoKey /\ GetJson(vtok[t]).used) => user.verified
            /\ (GetJson(rtok[t]) # NoKey /\ GetJson(rtok[t]).used) => okCount["reset"][t] > 0

----------------------------------------------------------------------------
(* Claims on the lockout, checked under SpecLogin *)

\* C5: a login that checks the lock when fewer than max_attempts failures are
\* recorded (max_attempts - 1 included) is not refused as locked; one that
\* checks it when max_attempts failures are recorded and the counter has not
\* expired fails with AccountLocked, performs no identity lookup or credential
\* check and leaves the counter alone, whatever its password.
C5_LockedAfterMaxAttempts ==
    \A p \in Handlers :
        login[p].failsAtCheck >= 0 =>
            /\ login[p].failsAtCheck < MaxAttempts => login[p].res # "AccountLocked"
            /\ login[p].failsAtCheck >= MaxAttempts =>
                  /\ login[p].res = "AccountLocked"
                  /\ ~login[p].credChecked
                  /\ ~login[p].touched

C5_Witness ==
    /\ \E p \in Handlers :
          /\ login[p].failsAtCheck = MaxAttempts
          /\ login[p].pwOk
          /\ login[p].res = "AccountLocked"
    /\ \E p \in Handlers :
          /\ login[p].failsAtCheck = MaxAttempts - 1
          /\ login[p].credChecked
    /\ user.exists /\ user.active /\ user.verified

\* C6: the first failure recorded after a successful login deleted the counter
\* yields count 1 and does not lock the identifier, whatever count was deleted.
C6_FailureAfterSuccessCountsOne ==
    \A p \in Handlers :
        login[p].cleared >= 0 => login[p].count = 1 /\ ~login[p].isLocked

C6_Witness ==
    \E p \in Handlers :
        login[p].cleared = MaxAttempts - 1 /\ login[p].count = 1 /\ ~login[p].isLocked

\* C12: whenever the failure counter is live and carries an expiry, that expiry
\* is the instant of the failure that took the count from 0 to 1 plus the
\* lockout duration.
C12_ExpiryAnchoredAtFirstFailure ==
    FlGet > 0 /\ flExpire # NoExpiry => flExpire = firstFail + Lockout

\* C17: a finished login with the right password for an existing identity that
\* is not active or not verified failed with EmailNotVerified.
C17_InactiveOrUnverifiedIsEmailNotVerified ==
    \A p \in Handlers :
        /\ lpc[p] = "idle" /\ login[p].credChecked /\ login[p].pwOk
        /\ user.exists /\ (~user.active \/ ~user.verified)
        => login[p].res = "EmailNotVerified"

\* C18: a login that issued a token pair found, at its lock check, fewer than
\* max_attempts failures recorded, passed the identity lookup and the password
\* check for an identity that exists, is active and is verified, deleted the
\* failure counter, set last_login_at, added exactly one LOGIN_SUCCESS row
\* and returned the pair.
C18_TokensOnlyAfterAllChecks ==
    \A p \in Handlers :
        login[p].tokens =>
            /\ login[p].failsAtCheck >= 0 /\ login[p].failsAtCheck < MaxAttempts
            /\ login[p].credChecked /\ login[p].pwOk
            /\ user.exists /\ user.active /\ user.verified
            /\ login[p].touched /\ login[p].countAfterClear = 0
            /\ login[p].lastLogin
            /\ login[p].nSuccess = 1
            /\ login[p].res = "Ok"

C18_Witness ==
    \E p \in Handlers :
        /\ login[p].tokens
        /\ login[p].failsAtCheck = MaxAttempts - 1
        /\ \E q \in Handlers \ {p} : login[q].res = "AuthenticationFailed"

\* C31: the identifier's failure counter never exceeds max_attempts, whatever
\* the interleaving of the logins: each counted failure was evaluated while
\* fewer than max_attempts failures stood on the counter.
C31_CounterNeverExceedsMax ==
    /\ FlGet <= MaxAttempts
    /\ \A p \in Handlers : login[p].touched /\ login[p].count > 0 =>
                                login[p].count <= MaxAttempts

\* C29: a login that failed the identity lookup or the credential check has
\* incremented the counter and added a LOGIN_FAILED row, and when its count
\* reached max_attempts it has added an ACCOUNT_LOCKED row as well and sent
\* the lockout alert.
C29_FailureRecordedAndLogged ==
    \A p \in Handlers :
        login[p].res = "AuthenticationFailed" /\ login[p].touched =>
            /\ login[p].count >= 1
            /\ \E i \in DOMAIN login[p].events : login[p].events[i] = "login_failed"
            /\ login[p].count = MaxAttempts =>
                  /\ \E i \in DOMAIN login[p].events : login[p].events[i] = "account_locked"
                  /\ login[p].lockMail

----------------------------------------------------------------------------
(* Claim on the device/IP check, checked under SpecDevice *)

\* C19: a finished login issued tokens exactly when it was not refused as
\* locked and had the right password for an existing, active, verified
\* identity, whatever its address and fingerprint, whether or not either was
\* new, and whether or not the security alert could be delivered.
C19_DeviceCheckIsAdvisory ==
    \A p \in DeviceLogins :
        lpc[p] = "idle" /\ login[p].res # "none" =>
            (login[p].tokens /\ login[p].res = "Ok"
                <=> /\ login[p].failsAtCheck < MaxAttempts
                    /\ login[p].pwOk
                    /\ user.exists /\ user.active /\ user.verified)

C19_Witness ==
    \E p, q \in DeviceLogins :
        /\ login[p].tokens /\ login[p].alert = "new_login" /\ login[p].sent = "False"
        /\ login[q].tokens /\ login[q].alert = "none" /\ login[q].ip = "ip1"
        /\ \E e \in loginEvents : e.ip = "ip2"

\* C30: a successful login has added a NEW_DEVICE_LOGIN or NEW_IP_LOGIN row
\* exactly when its address or its fingerprint was on no earlier successful
\* login; with both on earlier successful logins it added none and sent no
\* alert.
C30_NewDeviceEventOnlyWhenNew ==
    \A p \in DeviceLogins :
        login[p].res = "Ok" =>
            /\ login[p].deviceEvent # "none" <=>
                  \/ login[p].ip # "none" /\ ~login[p].ipSeen
                  \/ login[p].fp # "none" /\ ~login[p].fpSeen
            /\ login[p].ipSeen /\ login[p].fpSeen =>
                  login[p].deviceEvent = "none" /\ login[p].alert = "none"

----------------------------------------------------------------------------
(* Claim on the rate_limit decorator, checked under SpecBurst *)

\* C20: a decorated request that got its response ran the handler exactly when
\* the burst check and the main check both answered allowed, a check that was
\* never made counting as not allowing; and every step that writes the burst
\* key leaves the main key's entries and expiry alone and sets the burst
\* key's expiry from BURST_WINDOW, every step that writes the main key leaves
\* the burst key alone and sets the main key's expiry from RATE_LIMIT_WINDOW.
C20_HandlerRunsIffBothAllow ==
    [][ /\ \A p \in Wrappers :
              wreq'[p].res # "none" =>
                  (wreq'[p].ran <=> Allows(wreq'[p].burst) /\ Allows(wreq'[p].main))
        /\ BurstKey # MainKey
        /\ (wzset'[BurstKey] # wzset[BurstKey] \/ wzexpire'[BurstKey] # wzexpire[BurstKey]) =>
              /\ wzset'[MainKey] = wzset[MainKey] /\ wzexpire'[MainKey] = wzexpire[MainKey]
              /\ wzexpire'[BurstKey] \in {wzexpire[BurstKey], clock + BurstWindow + TicksPerSec}
        /\ (wzset'[MainKey] # wzset[MainKey] \/ wzexpire'[MainKey] # wzexpire[MainKey]) =>
              /\ wzset'[BurstKey] = wzset[BurstKey] /\ wzexpire'[BurstKey] = wzexpire[BurstKey]
              /\ wzexpire'[MainKey] \in {wzexpire[MainKey], clock + Window + TicksPerSec}
      ]_vars

C20_Witness ==
    \E p, q \in Wrappers :
        /\ wreq[p].burst = "allowed" /\ wreq[p].main = "rejected" /\ wreq[p].res = "429"
        /\ wreq[q].burst = "rejected" /\ wreq[q].main = "none" /\ wreq[q].res = "429 burst"
        /\ wzset[BurstKey] # wzset[MainKey]

\* C23: every decorated request rejected by the burst check or by the main
\* check got a 429 whose Retry-After header carries the retry_after that
\* is_allowed returned with the rejection.
C23_RejectionCarriesRetryAfter ==
    \A p \in Wrappers :
        wreq[p].res \in {"429", "429 burst"} =>
            /\ wreq[p].returned >= 0
            /\ wreq[p].retryHeader = wreq[p].returned

\* C33: a decorated request that was rejected, by the burst check or by the
\* main check after the burst check had allowed it, has left no entry of its
\* own under the burst key or under the main key.
C33_RejectedRequestConsumesNothing ==
    \A p \in Wrappers :
        wreq[p].res \in {"429", "429 burst"} =>
            ~wreq[p].burstAdded /\ ~wreq[p].mainAdded

----------------------------------------------------------------------------
(* Claim on logout and password reset, checked under SpecLogout *)

----------------------------------------------------------------------------
(* Claim on the way of a request, checked under SpecDispatch *)

\* C25: a request whose route ran the login or the refresh operation had passed
\* a rate-limiter check that allowed it.
C25_LoginAndRefreshAreGated ==
    \A p \in RLProcs :
        dreq[p].op \in {"login", "refresh"} => dreq[p].checked /\ dreq[p].allowed

----------------------------------------------------------------------------
(* Claim on issuing to a disabled identity, checked under SpecIssue *)

\* C36: every token pair returned by refresh_tokens or by the OAuth callback
\* was issued while the identity's active flag was true.
C36_NoTokensWhileDisabled ==
    /\ \A p \in RefreshCallers : rres[p].pair => rres[p].active
    /\ oauth.pair => oauth.active

----------------------------------------------------------------------------
(* Claims on the session-token codec, checked under SpecRefresh *)

\* C7: any two refresh_tokens calls whose tokens were defective (malformed,
\* tampered signature, or expired under a valid signature) got the same result
\* from decode_token, None, and the same result from refresh_tokens, the
\* error "Invalid refresh token", with no token pair issued.
C7_DefectsIndistinguishable ==
    \A p \in RefreshCallers, q \in RefreshCallers :
        rres[p].defect # "none" /\ rres[q].defect # "none" =>
            /\ rres[p].exc = rres[q].exc
            /\ rres[p].decoded = rres[q].decoded
            /\ rres[p].res = rres[q].res
            /\ rres[p].pair = rres[q].pair
            /\ rres[p].exc = "none"
            /\ rres[p].decoded = NoPayload
            /\ rres[p].res = "Invalid refresh token"

C7_Witness ==
    \E p \in RefreshCallers, q \in RefreshCallers, r \in RefreshCallers :
        /\ rres[p].defect = "expired"
        /\ rres[q].defect = "tampered"
        /\ rres[r].defect = "malformed"
        /\ rres[p].res = "Invalid refresh token"
        /\ rres[q].res = rres[p].res
        /\ rres[r].res = rres[p].res
        /\ rres[q].decoded = rres[p].decoded
        /\ rres[r].decoded = rres[p].decoded

----------------------------------------------------------------------------
(* Claims on store outages, checked under SpecOutage *)

\* C11: a login one of whose store commands met an unreachable store ends in
\* an error and issues no tokens, and a verify_email or reset_password call
\* one of whose store commands met it ends in an error and commits no change
\* to the identity.
C11_GuardAndTokensFailClosed ==
    /\ \A p \in Handlers :
          login[p].fault => login[p].res \notin {"Ok", "none"}
    /\ \A p \in Handlers :
          redeems[p].fault => redeems[p].res \notin {"Ok", "none"} /\ ~redeems[p].changed
    /\ user.verified => \E t \in Tokens : okCount["verify"][t] > 0
    /\ user.password # "pw0" => \E t \in Tokens : okCount["reset"][t] > 0

C11_Witness ==
    /\ \E p \in Handlers : login[p].fault /\ login[p].pwOk /\ login[p].credChecked
    /\ \E p \in Handlers : redeems[p].fault /\ redeems[p].op = "verify"
    /\ user.verified

\* C14: refresh_tokens returns a token pair only for a token that decoded
\* (valid signature, not expired) to a payload of type refresh whose subject is
\* an existing active identity; a valid access token given to refresh_tokens is
\* refused and issues nothing, and a valid refresh token given as the bearer
\* credential is refused.
C14_RefreshOnlyOnValidRefreshToken ==
    /\ \A p \in RefreshCallers :
          /\ rres[p].pair =>
                /\ rres[p].defect = "none"
                /\ rres[p].decoded.type = "refresh"
                /\ rres[p].decoded.sub \in SessionUsers
                /\ rres[p].active
          /\ rres[p].decoded.type = "access" =>
                ~rres[p].pair /\ rres[p].res = "Invalid token type"
    /\ bearer.decoded.type = "refresh" => bearer.res = "Invalid access token"

C14_Witness ==
    /\ \E p \in RefreshCallers : rres[p].pair /\ rres[p].decoded.type = "refresh"
    /\ \E p \in RefreshCallers :
          rres[p].decoded.type = "access" /\ rres[p].res = "Invalid token type"
    /\ bearer.decoded.type = "refresh" /\ bearer.res = "Invalid access token"

\* C37: once the logins that recorded failures have returned, a failed-login
\* counter that exists in the store carries an expiry.
C37_CounterCarriesExpiry ==
    (\A p \in Handlers : lpc[p] = "idle") =>
        (flCount > 0 => flExpire # NoExpiry)

----------------------------------------------------------------------------
(* Claims on signup, checked under SpecSignup *)

\* C15: a signup with a matching, compliant password for an email that has an
\* identity fails with Conflict; a signup whose confirmation does not match or
\* whose password breaks a rule fails with Validation; neither creates an
\* identity, stores a token, appends an event or requests an email, and the
\* directory holds no identity that a successful signup did not commit.
C15_SignupRejections ==
    \A p \in Handlers :
        LET c == signup[p]
            untouched == ~c.created /\ ~c.stored /\ ~c.logged /\ ~c.mailed
        IN /\ c.email # "none" /\ (~c.matched \/ ~c.compliant) =>
                 c.res = "Validation" /\ untouched
           /\ c.email # "none" /\ c.matched /\ c.compliant /\ c.existed =>
                 c.res = "Conflict" /\ untouched
           /\ c.res \in {"Conflict", "Validation"} => untouched

C15_Witness ==
    /\ \E p \in Handlers : signup[p].res = "Conflict" /\ signup[p].existed
    /\ \E p \in Handlers : signup[p].res = "Validation" /\ signup[p].matched
    /\ Cardinality(dir) = 1
    /\ \E t \in Tokens : vtok[t] # NoKey


----------------------------------------------------------------------------
(* Claim on signup and commit, checked under SpecEnrol *)

\* C35: once a signup has returned, the verification token it stored, while
\* the store holds it, belongs to an identity that is in the directory.
C35_TokenOwnerExists ==
    \A p \in Handlers :
        (/\ spc[p] = "idle"
         /\ signup[p].stored
         /\ GetJson(vtok[signup[p].tok]) # NoKey)
            => signup[p].email \in dir

----------------------------------------------------------------------------
(* Claims on the limiter's helpers, checked under SpecResolve *)

\* v is the first comma-separated element of h without its surrounding blanks.
IsFirstAddress(h, v) ==
    LET k == IF \E i \in 1..Len(h) : h[i] = ","
             THEN SetMin({i \in 1..Len(h) : h[i] = ","})
             ELSE Len(h) + 1
        prefix == SubSeq(h, 1, k - 1)
    IN /\ \A i \in 1..Len(v) : v[i] # ","
       /\ v # << >> => v[1] # " " /\ v[Len(v)] # " "
       /\ \E a \in 0..Len(prefix) :
             /\ a + Len(v) <= Len(prefix)
             /\ \A i \in 1..a : prefix[i] = " "
             /\ SubSeq(prefix, a + 1, a + Len(v)) = v
             /\ \A i \in (a + Len(v) + 1)..Len(prefix) : prefix[i] = " "

\* C21: the identifier resolved for a request is the user's id when the state
\* carries a user with an id; else the token claim subject when token_data
\* carries one; else the first element of a non-empty X-Forwarded-For header,
\* blanks removed; else the connection's host.
C21_IdentifierPrecedence ==
    probe.identified =>
        LET r == probe.request
            hasId == r.user.present /\ r.user.hasId
            hasSub == r.token_data.hasSub
            hasForwarded == r.forwarded.present /\ r.forwarded.value # << >>
        IN /\ hasId => probe.identifier = [kind |-> "user", value |-> UserId]
           /\ ~hasId /\ hasSub => probe.identifier = [kind |-> "user", value |-> TokenSub]
           /\ ~hasId /\ ~hasSub /\ hasForwarded =>
                 /\ probe.identifier.kind = "ip"
                 /\ IsFirstAddress(r.forwarded.value, probe.identifier.value)
           /\ ~hasId /\ ~hasSub /\ ~hasForwarded /\ r.client =>
                 probe.identifier = [kind |-> "ip", value |-> ClientHost]

C21_Witness ==
    /\ probe.identified
    /\ ~probe.request.user.present /\ ~probe.request.token_data.hasSub
    /\ probe.request.forwarded.value = << " ", "1", "," >>
    /\ probe.request.client
    /\ probe.identifier = [kind |-> "ip", value |-> << "1" >>]

\* The ceiling of each plan tier.
Ceiling(tier) ==
    CASE tier = "free" -> RateLimitFree
      [] tier = "pro" -> RateLimitPro
      [] tier = "business" -> RateLimitBusiness
      [] tier = "enterprise" -> RateLimitEnterprise

\* C22: the limit resolved for a request is the ceiling of the tier named by
\* the user's subscription, or by the token's plan claim when the state has no
\* user with a subscription attribute; the four ceilings differ; a request with
\* neither user nor token data, a user whose subscription is None, and a plan
\* value outside the four tiers get the free ceiling.
C22_LimitFollowsPlanTier ==
    /\ \A t, u \in Plans : t # u => Ceiling(t) # Ceiling(u)
    /\ \A t \in Plans : Ceiling(t) >= Ceiling("free")
    /\ probe.planned =>
        LET r == probe.request
            subscribed == r.user.present /\ r.user.subscription # "absent"
        IN /\ \A t \in Plans :
                 subscribed /\ r.user.subscription = t => probe.limit = Ceiling(t)
           /\ \A t \in Plans :
                 ~subscribed /\ r.token_data.plan = t => probe.limit = Ceiling(t)
           /\ ~r.user.present /\ ~r.token_data.hasSub /\ r.token_data.plan = "absent" =>
                 probe.limit = Ceiling("free")
           /\ subscribed /\ r.user.subscription = "None" => probe.limit = Ceiling("free")
           /\ probe.plan \notin Plans => probe.limit = Ceiling("free")

C22_Witness ==
    /\ probe.planned
    /\ probe.request.user.present /\ probe.request.user.subscription = "business"
    /\ probe.request.token_data.plan = "gold"
    /\ probe.limit = RateLimitBusiness

====
